---------------------------- MODULE Spec2Model ----------------------------
(***************************************************************************)
(* A model of the web-image-format-variation toolkit: the ImageMagick      *)
(* command runner and its process-wide cache, the variation generators     *)
(* and the index they write, and the validators with their result object.  *)
(* External tools (ImageMagick, PIL, piexif, OpenCV) are the environment:  *)
(* each of their calls is a nondeterministic choice over the outcomes the  *)
(* call can have (success, the exceptions it can raise).                   *)
(***************************************************************************)
EXTENDS Integers, Sequences, FiniteSets, TLC

VARIABLES
    mode,             \* which entry point this run of the program exercises
    imagemagick_cmd,  \* ImageMagickUtils._imagemagick_cmd / _imagemagick_cmd
    binState,         \* the host: state of the `magick` and `convert` binaries
    lastCall,         \* what the last run_command call probed, executed, returned
    nCalls,           \* number of run_command calls made so far
    impl,             \* generators run: variation_generator's functions or the classes
    sameDir,          \* generate_variations: source_dir and output_dir are one directory
    srcFiles,         \* the test_original.* files present in source_dir
    pc,               \* position of generate_variations
    cur,              \* the format whose generator is running
    row,              \* index of the next table row / critical combination
    variations_index, \* the running generator's variations_index list
    result,           \* what each generator returned: Pending, ReturnedNone or a list
    attempted,        \* per generator, the filenames whose conversion was started
    excIn,            \* per generator, whether a tool call in it raised an exception
    files,            \* the paths that exist under output_dir
    indexJson,        \* the file output_dir/index.json: NoFile or its entries
    ret,              \* what generate_variations returned
    faults,           \* tool calls that went wrong so far in this run
    jpegDir,          \* jpeg_dir: what it holds under each table filename
    vpos,             \* index of the next entry of jpeg_specs
    results,          \* validate_jpeg_variations' results list
    callFilename,     \* validate_jpeg_file's argument filename
    callSpecs,        \* validate_jpeg_file's argument expected_specs
    callFile,         \* what validate_jpeg_file's argument file_path holds
    vr,               \* a ValidationResult
    nAdds,            \* add_test calls made on vr by a caller
    vdone,            \* the validator call has returned
    dirA,             \* compare_directories: what dir_a is and holds
    dirB,             \* compare_directories: what dir_b is and holds
    output_format,    \* compare_directories' argument output_format
    output_file,      \* compare_directories' argument output_file
    cmpPc,            \* position of compare_directories / _compare_images
    comparison_results, \* compare_directories' list comparison_results
    report_data,      \* the report compare_directories builds
    outWritten,       \* the report was written to output_file
    cmpRet,           \* how compare_directories ended
    cmpFilename,      \* _compare_images' argument filename
    fileA,            \* what _compare_images' argument image_a_path holds
    fileB,            \* what _compare_images' argument image_b_path holds
    cmpResult,        \* the dict _compare_images returned
    jpegOut,          \* validate_all_variations: the directory output_dir/jpeg
    pngOut,           \* validate_all_variations: the directory output_dir/png
    valResults,       \* the results dict of validate_all_variations
    reportKind,       \* save_validation_report: output_file ends in .json or not
    reportWritable,   \* save_validation_report: output_file can be opened for writing
    reportPc,         \* position of the validate-and-report run
    reportRet,        \* how save_validation_report ended
    reportContent,    \* what save_validation_report left in output_file
    args,             \* main: the namespace parser.parse_args() returned
    opOutcome,        \* main: how the subcommand's first operation ends
    op2Outcome,       \* main: how the operation called after it ends
    mainPc,           \* position of main
    mainCalls,        \* the operations main has called
    exitCode,         \* what main returned (-1: not yet)
    avifHost,         \* AvifGenerator: the host it runs on
    avifSources,      \* AvifGenerator: the test_original.* files in source_dir
    avifPc,           \* position of AvifGenerator.generate_variations
    avifIndex,        \* AvifGenerator: its variations_index list
    avifRet,          \* what AvifGenerator.generate_variations returned
    avifFiles,        \* AvifGenerator: the files written under output_dir
    avifRuns,         \* AvifGenerator: the sources handed to a conversion
    iccHost,          \* _convert_icc: the binaries of the host
    iccParam,         \* _convert_icc: its icc parameter
    iccExists,        \* _convert_icc: the profile files the host has
    iccCache,         \* _convert_icc: the runner's cached command
    iccPc,            \* position of _convert_icc
    iccNext,          \* _convert_icc: index of the next candidate path
    iccLog,           \* _convert_icc: the commands run, with their results
    gifRow,           \* the row of gif_specs being generated (0: a direct call)
    gifArgs,          \* arguments of the GIF frame functions
    gifPc,            \* position in the create / save pair
    gifFrames,        \* what create_gif_test_animation returned
    gifSaved,         \* what save_gif_with_options handed to the GIF writer
    imgWidth,         \* create_jpeg_test_image: its argument width
    imgHeight,        \* create_jpeg_test_image: its argument height
    imgPc,            \* position of create_jpeg_test_image
    imgDraw,          \* create_jpeg_test_image: the last position it drew
    imgSize,          \* the size of the image create_jpeg_test_image returned
    tolRow,           \* the table row whose numeric test is applied
    tolMeasured,      \* what the file carries for that test
    tolPc,            \* position of the numeric test
    tolResult,        \* the ValidationResult of the numeric test
    sample8,          \* _create_16bit_png_opencv: a sample of the uint8 source
    noise16,          \* _create_16bit_png_opencv: the noise drawn for the sample
    sample16,         \* _create_16bit_png_opencv: the sample of the 16-bit image
    animPc,           \* position of _generate_animation_avif
    animLog,          \* _generate_animation_avif: the tools run, with their results
    animIndex,        \* _generate_animation_avif: its argument variations_index
    animExists,       \* _generate_animation_avif: output_path exists
    freshResult,      \* a ValidationResult that add_test is called on
    addCalls          \* the add_test calls made on freshResult

runnerVars == <<imagemagick_cmd, binState, lastCall, nCalls>>

genVars == <<impl, sameDir, srcFiles, pc, cur, row, variations_index, result,
             attempted, excIn, files, indexJson, ret, faults>>

valVars == <<jpegDir, vpos, results, callFilename, callSpecs, callFile, vr,
             nAdds, vdone>>

cmpVars == <<dirA, dirB, output_format, output_file, cmpPc, comparison_results,
             report_data, outWritten, cmpRet, cmpFilename, fileA, fileB, cmpResult>>

reportVars == <<jpegOut, pngOut, valResults, reportKind, reportWritable, reportPc,
                reportRet, reportContent>>

mainVars == <<args, opOutcome, op2Outcome, mainPc, mainCalls, exitCode>>

avifVars == <<avifHost, avifSources, avifPc, avifIndex, avifRet, avifFiles, avifRuns>>

\* The state of the comparator, the report and the command line.
otherVars == <<cmpVars, reportVars, mainVars>>

iccVars == <<iccHost, iccParam, iccExists, iccCache, iccPc, iccNext, iccLog>>

gifVars == <<gifRow, gifArgs, gifPc, gifFrames, gifSaved>>

imageVars == <<imgWidth, imgHeight, imgPc, imgDraw, imgSize>>

toleranceVars == <<tolRow, tolMeasured, tolPc, tolResult>>

depth16Vars == <<sample8, noise16, sample16>>

animVars == <<animPc, animLog, animIndex, animExists>>

callsVars == <<freshResult, addCalls>>

vars == <<mode, runnerVars, genVars, valVars, cmpVars, reportVars, mainVars,
          avifVars, iccVars, gifVars,
          imageVars,
          toleranceVars,
          depth16Vars,
          animVars,
          callsVars>>

\* Python's None.
None == "None"

\* What a generator hands back: nothing yet, None, or its list of entries.
Pending == [st |-> "pending", list |-> <<>>]
ReturnedNone == [st |-> None, list |-> <<>>]
ReturnedList(l) == [st |-> "list", list |-> l]

\* A file that is absent, and a JSON file holding the list e.
NoFile == [exists |-> FALSE, entries |-> <<>>]
JsonFile(e) == [exists |-> TRUE, entries |-> e]

-----------------------------------------------------------------------------
(* Bounds of the model.                                                    *)

\* run_command calls explored in the runner specification.
MaxCalls == 3

-----------------------------------------------------------------------------
(* The host environment of the runner.                                     *)

Binaries == {"magick", "convert"}

\* A binary on the host: runs, exits non-zero, is absent, or cannot be
\* executed (found on PATH but not executable: PermissionError, an OSError
\* that is not FileNotFoundError).
BinStates == {"ok", "broken", "missing", "denied"}

\* Outcomes of one subprocess.run(..., check=True): exit 0,
\* CalledProcessError, FileNotFoundError, any other exception.
Outcomes == {"ok", "nonzero", "missing", "oserror"}

\* subprocess.run([test_cmd, '--version'], capture_output=True, check=True)
ProbeOutcome(env, c) ==
    CASE env[c] = "ok"      -> "ok"
      [] env[c] = "broken"  -> "nonzero"
      [] env[c] = "missing" -> "missing"
      [] env[c] = "denied"  -> "oserror"

\* subprocess.run(cmd, capture_output=True, text=True, check=True) with
\* cmd[0] = c: what the host lets it end in. A working binary may still exit
\* non-zero on these arguments, or the call may raise another error (the
\* captured output does not decode as text, the argument list is too long).
ExecOutcomes(env, c) ==
    CASE env[c] = "ok"      -> {"ok", "nonzero", "oserror"}
      [] env[c] = "broken"  -> {"nonzero"}
      [] env[c] = "missing" -> {"missing"}
      [] env[c] = "denied"  -> {"oserror"}

-----------------------------------------------------------------------------
(* ImageMagickUtils.run_command (the same code as                          *)
(* variation_generator._run_imagemagick_command).                          *)

\* for test_cmd in ['magick', 'convert']
TestCmds == <<"magick", "convert">>

\* except (subprocess.CalledProcessError, FileNotFoundError)
CaughtByRunner == {"nonzero", "missing"}

\* The detection loop from its i-th candidate on: the command it caches (None
\* when none answered), the candidates it probed, whether a probe raised past
\* the except clause.
RECURSIVE Detect(_, _)
Detect(env, i) ==
    IF i > Len(TestCmds)
    THEN [cmd |-> None, probed |-> <<>>, raised |-> FALSE]
    ELSE LET c == TestCmds[i]
             o == ProbeOutcome(env, c)
         IN  IF o = "ok"
             THEN [cmd |-> c, probed |-> <<c>>, raised |-> FALSE]
             ELSE IF o \in CaughtByRunner
             THEN LET r == Detect(env, i + 1)
                  IN  [r EXCEPT !.probed = <<c>> \o @]
             ELSE [cmd |-> None, probed |-> <<c>>, raised |-> TRUE]

\* A mutant of run_command: a cached command that is absent is detected again.
run_command_redetect(cache, env, x) ==
    LET stale == cache # None /\ env[cache] = "missing"
        d == IF cache = None \/ stale
             THEN Detect(env, 1)
             ELSE [cmd |-> cache, probed |-> <<>>, raised |-> FALSE]
    IN  IF d.raised
        THEN [cmd |-> cache, probed |-> d.probed, argv0 |-> "none", ret |-> "raised"]
        ELSE IF d.cmd = None
        THEN [cmd |-> IF stale THEN None ELSE cache, probed |-> d.probed,
              argv0 |-> "none", ret |-> "False"]
        ELSE [cmd |-> d.cmd, probed |-> d.probed, argv0 |-> d.cmd,
              ret |-> IF x = "ok" THEN "True"
                      ELSE IF x \in CaughtByRunner THEN "False" ELSE "raised"]

\* One call of run_command(cmd) with the cache at `cache` on host `env`, the
\* executed command ending in x: the cache afterwards, the candidates probed,
\* the program name executed ("none" when nothing was executed), and the
\* result ("True", "False", or "raised" when an exception leaves the call).
run_command(cache, env, x) ==
    LET d == IF cache = None
             THEN Detect(env, 1)
             ELSE [cmd |-> cache, probed |-> <<>>, raised |-> FALSE]
    IN  IF d.raised
        THEN [cmd |-> None, probed |-> d.probed, argv0 |-> "none", ret |-> "raised"]
        ELSE IF d.cmd = None
        THEN [cmd |-> None, probed |-> d.probed, argv0 |-> "none", ret |-> "False"]
        ELSE [cmd |-> d.cmd, probed |-> d.probed, argv0 |-> d.cmd,
              ret |-> IF x = "ok" THEN "True"
                      ELSE IF x \in CaughtByRunner THEN "False" ELSE "raised"]

\* The outcomes the executed command of a call can have: those of the binary
\* the call ends up executing; a call that executes nothing has one outcome.
CallOutcomes(cache, env) ==
    LET r == run_command(cache, env, "ok")
    IN  IF r.argv0 = "none" THEN {"ok"} ELSE ExecOutcomes(env, r.argv0)

NoCall == [probed |-> <<>>, argv0 |-> "none", ret |-> "none", fresh |-> FALSE]

\* The runner's state before any call, on some host.
RunnerStart ==
    /\ imagemagick_cmd = None
    /\ binState \in [Binaries -> BinStates]
    /\ lastCall = NoCall
    /\ nCalls = 0

\* A caller invokes run_command(cmd).
RunCommandCall ==
    /\ mode = "runner"
    /\ nCalls < MaxCalls
    /\ \E x \in CallOutcomes(imagemagick_cmd, binState) :
         LET r == run_command(imagemagick_cmd, binState, x)
         IN  /\ imagemagick_cmd' = r.cmd
             /\ lastCall' = [probed |-> r.probed, argv0 |-> r.argv0, ret |-> r.ret,
                             fresh |-> imagemagick_cmd = None]
    /\ nCalls' = nCalls + 1
    /\ UNCHANGED <<mode, callsVars, animVars, depth16Vars, toleranceVars, imageVars, gifVars, iccVars, avifVars, otherVars, binState, genVars, valVars>>

\* Between two calls the host changes: a binary is installed, removed, broken.
HostChange ==
    /\ mode = "runner"
    /\ nCalls < MaxCalls
    /\ \E b \in Binaries, s \in BinStates :
         /\ s # binState[b]
         /\ binState' = [binState EXCEPT ![b] = s]
    /\ UNCHANGED <<mode, callsVars, animVars, depth16Vars, toleranceVars, imageVars, gifVars, iccVars, avifVars, otherVars, imagemagick_cmd, lastCall, nCalls, genVars, valVars>>

-----------------------------------------------------------------------------
(* The variation tables of the generators.                                 *)

R(p, c) == [param |-> p, category |-> c]

\* jpeg_specs of variation_generator.generate_jpeg_variations
JpegSpecsFunctions == <<
    R("rgb", "colorspace"), R("cmyk", "colorspace"), R("grayscale", "colorspace"),
    R("baseline", "encoding"), R("progressive", "encoding"),
    R("none", "thumbnail"), R("embedded", "thumbnail"),
    R("20", "quality"), R("50", "quality"), R("80", "quality"), R("95", "quality"),
    R("444", "subsampling"), R("422", "subsampling"), R("420", "subsampling"),
    R("none", "metadata"), R("basic_exif", "metadata"), R("gps", "metadata"),
    R("full_exif", "metadata"),
    R("none", "icc"), R("srgb", "icc"), R("adobergb", "icc"),
    R("1", "orientation"), R("3", "orientation"), R("6", "orientation"),
    R("8", "orientation"),
    R("jfif_units0", "dpi"), R("jfif_72dpi", "dpi"), R("jfif_200dpi", "dpi"),
    R("exif_72dpi", "dpi"), R("exif_200dpi", "dpi") >>

\* jpeg_specs of JpegGenerator.generate_variations
JpegSpecsClasses == <<
    R("rgb", "colorspace"), R("cmyk", "colorspace"), R("grayscale", "colorspace"),
    R("baseline", "encoding"), R("progressive", "encoding"),
    R("none", "thumbnail"), R("embedded", "thumbnail"),
    R("20", "quality"), R("50", "quality"), R("80", "quality"), R("95", "quality"),
    R("444", "subsampling"), R("422", "subsampling"), R("420", "subsampling"),
    R("none", "metadata"), R("basic_exif", "metadata"), R("gps", "metadata"),
    R("full_exif", "metadata"), R("xmp", "metadata"), R("iptc", "metadata"),
    R("none", "icc"), R("srgb", "icc"), R("adobergb", "icc"),
    R("1", "orientation"), R("3", "orientation"), R("6", "orientation"),
    R("8", "orientation"),
    R("jfif_units0", "dpi"), R("jfif_72dpi", "dpi"), R("jfif_200dpi", "dpi"),
    R("exif_72dpi", "dpi"), R("exif_200dpi", "dpi") >>

\* png_specs of generate_png_variations and of PngGenerator.generate_variations
PngSpecs == <<
    R("grayscale", "colortype"), R("palette", "colortype"), R("rgb", "colortype"),
    R("rgba", "colortype"), R("grayscale_alpha", "colortype"),
    R("none", "interlace"), R("adam7", "interlace"),
    R("1", "depth"), R("8", "depth"), R("16", "depth"),
    R("0", "compression"), R("6", "compression"), R("9", "compression"),
    R("opaque", "alpha"), R("semitransparent", "alpha"), R("transparent", "alpha"),
    R("none", "filter"), R("sub", "filter"), R("up", "filter"),
    R("average", "filter"), R("paeth", "filter"),
    R("none", "metadata"), R("text", "metadata"), R("compressed", "metadata"),
    R("international", "metadata"),
    R("gamma", "chunk"), R("background", "chunk"), R("transparency", "chunk") >>

\* gif_specs of generate_gif_variations and of GifGenerator.generate_variations
GifSpecs == <<
    R("single", "frames"), R("short", "frames"), R("medium", "frames"),
    R("long", "frames"),
    R("slow", "fps"), R("normal", "fps"), R("fast", "fps"),
    R("2colors", "palette"), R("16colors", "palette"), R("256colors", "palette"),
    R("nodither", "dither"), R("dithered", "dither"),
    R("noopt", "optimize"), R("optimized", "optimize"),
    R("loop_infinite", "loop"), R("loop_once", "loop"), R("loop_3times", "loop") >>

\* critical_combinations of generate_jpeg_variations
JpegCriticalFunctions == <<
    "critical_cmyk_lowquality.jpg", "critical_progressive_fullmeta.jpg",
    "critical_thumbnail_progressive.jpg", "critical_orientation_metadata.jpg",
    "critical_jfif_exif_dpi.jpg" >>

\* critical_combinations of JpegGenerator.generate_variations
JpegCriticalClasses == <<
    "critical_cmyk_lowquality.jpg", "critical_progressive_fullmeta.jpg",
    "critical_thumbnail_progressive.jpg", "critical_orientation_metadata.jpg",
    "critical_jfif_exif_dpi.jpg", "critical_xmp_iptc_conflict.jpg",
    "critical_xmp_complex.jpg" >>

PngCritical == <<
    "critical_16bit_palette.png", "critical_alpha_grayscale.png",
    "critical_maxcompression_paeth.png", "critical_interlace_highres.png" >>

GifCritical == <<
    "critical_fast_256colors_long.gif", "critical_dither_smallpalette.gif",
    "critical_noopt_manyframes.gif" >>

Formats == {"jpeg", "png", "gif"}

Specs(im, fmt) ==
    CASE fmt = "jpeg" -> IF im = "classes" THEN JpegSpecsClasses ELSE JpegSpecsFunctions
      [] fmt = "png"  -> PngSpecs
      [] fmt = "gif"  -> GifSpecs

Critical(im, fmt) ==
    CASE fmt = "jpeg" -> IF im = "classes" THEN JpegCriticalClasses
                         ELSE JpegCriticalFunctions
      [] fmt = "png"  -> PngCritical
      [] fmt = "gif"  -> GifCritical

\* filename = f"{category}_{param}.jpg" and its siblings in the dispatch
Filename(fmt, r) ==
    CASE fmt = "jpeg" -> r.category \o "_" \o r.param \o ".jpg"
      [] fmt = "png"  -> IF r.category = "depth"
                         THEN "depth_" \o r.param \o "bit.png"
                         ELSE r.category \o "_" \o r.param \o ".png"
      [] fmt = "gif"  -> r.category \o "_" \o r.param \o ".gif"

\* the index entry appended for a file: "path": f"jpeg/{filename}"
Entry(fmt, filename) == [format |-> fmt, path |-> fmt \o "/" \o filename]

\* the entries appended for the critical combinations, in list order
CriticalEntries(im, fmt) ==
    [k \in 1..Len(Critical(im, fmt)) |-> Entry(fmt, Critical(im, fmt)[k])]

\* every filename a generator goes through on a run nothing interrupts
AllFilenames(im, fmt) ==
    [k \in 1..Len(Specs(im, fmt)) |-> Filename(fmt, Specs(im, fmt)[k])]
        \o Critical(im, fmt)

-----------------------------------------------------------------------------
(* The private conversion routines. Each is the set of ways one call of it  *)
(* can end on host env with the runner's cache at `cache`:                  *)
(*   written  the output file exists afterwards                            *)
(*   raised   an exception leaves the routine (into the generator's try)   *)
(*   exc      some tool call in it raised an exception                     *)
(*   cache    the runner's cache afterwards                                *)
(*   faults   the tool calls in it that did not succeed                    *)

Out(w, r, e, c, n) == [written |-> w, raised |-> r, exc |-> e, cache |-> c, faults |-> n]

\* One run_command call from a conversion routine.
RunnerResults(cache, env) ==
    { LET r == run_command(cache, env, x)
      IN  [ret |-> r.ret, cache |-> r.cmd, faults |-> IF x = "ok" THEN 0 ELSE 1] :
      x \in CallOutcomes(cache, env) }

\* A mutant of ImOnly: the routine raises when the runner reports failure.
ImOnlyStrict(cache, env) ==
    { Out(r.ret = "True", r.ret # "True", r.ret = "raised", r.cache, r.faults) :
      r \in RunnerResults(cache, env) }

\* cmd = ["convert", source, ..., output_file]; run_command(cmd), its result
\* ignored: _convert_jpeg_colorspace, _convert_jpeg_quality, ... and the
\* PNG routines.
ImOnly(cache, env) ==
    { Out(r.ret = "True", r.ret = "raised", r.ret = "raised", r.cache, r.faults) :
      r \in RunnerResults(cache, env) }

\* try: PIL/piexif (or OpenCV) writes the file; except Exception: the
\* ImageMagick fallback: thumbnail "embedded", orientation, dpi, PNG depth 16.
PilThenIm(cache, env) ==
    {Out(TRUE, FALSE, FALSE, cache, 0)}
        \cup { [o EXCEPT !.exc = TRUE, !.faults = @ + 1] : o \in ImOnly(cache, env) }

\* n run_command calls, each made only if the one before returned False:
\* if not run(cmd1): if not run(cmd2): run(cmd3)
RECURSIVE Chain(_, _, _)
Chain(cache, env, n) ==
    IF n = 0
    THEN {Out(FALSE, FALSE, FALSE, cache, 0)}
    ELSE UNION { IF r.ret = "True"
                 THEN {Out(TRUE, FALSE, FALSE, r.cache, r.faults)}
                 ELSE IF r.ret = "raised"
                 THEN {Out(FALSE, TRUE, TRUE, r.cache, r.faults)}
                 ELSE { [o EXCEPT !.faults = @ + r.faults] :
                        o \in Chain(r.cache, env, n - 1) } :
                 r \in RunnerResults(cache, env) }

\* srgb_paths and adobe_paths of JpegGenerator._convert_icc
SrgbPaths == <<"/System/Library/ColorSync/Profiles/sRGB Profile.icc",
               "/usr/share/color/icc/sRGB.icc",
               "/usr/share/color/icc/profiles/sRGB.icc",
               "/usr/share/color/icc/sRGB2014.icc">>

AdobePaths == <<"/System/Library/ColorSync/Profiles/AdobeRGB1998.icc",
                "/usr/share/color/icc/AdobeRGB1998.icc",
                "/usr/share/color/icc/profiles/AdobeRGB1998.icc">>

\* _convert_jpeg_icc / JpegGenerator._convert_icc. The functions try one
\* profile path, the built-in name, the plain conversion; the class tries
\* each candidate path the host has (any number of them), then those two.
IccResults(im, icc, cache, env) ==
    IF icc = "none"
    THEN ImOnly(cache, env)
    ELSE IF im = "functions"
    THEN Chain(cache, env, 3)
    ELSE LET paths == IF icc = "srgb" THEN SrgbPaths ELSE AdobePaths
         IN  UNION { Chain(cache, env, k + 2) : k \in 0..Len(paths) }

\* JpegGenerator._convert_xmp, _convert_xmp_iptc_conflict, _convert_xmp_complex:
\* try: PIL saves the file, then run_command embeds the metadata;
\* except Exception: run_command copies the source.
XmpResults(cache, env) ==
    UNION { IF r.ret # "raised"
            THEN {Out(TRUE, FALSE, FALSE, r.cache, r.faults)}
            ELSE { [o EXCEPT !.written = TRUE, !.exc = TRUE, !.faults = @ + r.faults] :
                   o \in ImOnly(r.cache, env) } :
            r \in RunnerResults(cache, env) }
        \cup { [o EXCEPT !.exc = TRUE, !.faults = @ + 1] : o \in ImOnly(cache, env) }

\* JpegGenerator._convert_iptc: try: run_command; except Exception: run_command.
IptcResults(cache, env) ==
    UNION { IF r.ret # "raised"
            THEN {Out(r.ret = "True", FALSE, FALSE, r.cache, r.faults)}
            ELSE { [o EXCEPT !.exc = TRUE, !.faults = @ + r.faults] :
                   o \in ImOnly(r.cache, env) } :
            r \in RunnerResults(cache, env) }

\* frames = create_gif_test_animation(...); save_gif_with_options(frames, ...):
\* no try around either in the GIF generator.
GifSave(cache) ==
    {Out(TRUE, FALSE, FALSE, cache, 0), Out(FALSE, TRUE, TRUE, cache, 1)}

\* The dispatch on category in the generators' loops.
ConvertResults(im, fmt, r, cache, env) ==
    CASE fmt = "gif" -> GifSave(cache)
      [] fmt = "png" ->
            IF r.category = "depth" /\ r.param = "16"
            THEN PilThenIm(cache, env)
            ELSE ImOnly(cache, env)
      [] fmt = "jpeg" ->
            CASE r.category = "thumbnail" /\ r.param = "embedded" -> PilThenIm(cache, env)
              [] r.category = "metadata" /\ r.param = "xmp" /\ im = "classes" ->
                    XmpResults(cache, env)
              [] r.category = "metadata" /\ r.param = "iptc" /\ im = "classes" ->
                    IptcResults(cache, env)
              [] r.category = "icc" -> IccResults(im, r.param, cache, env)
              [] r.category \in {"orientation", "dpi"} -> PilThenIm(cache, env)
              [] OTHER -> ImOnly(cache, env)

\* The k-th file of _convert_jpeg_critical_combinations,
\* _convert_png_critical_combinations and the GIF critical block.
CriticalResults(im, fmt, k, cache, env) ==
    CASE fmt = "gif" -> GifSave(cache)
      [] fmt = "png" -> ImOnly(cache, env)
      [] fmt = "jpeg" ->
            IF k <= 3 THEN ImOnly(cache, env)
            ELSE IF k <= 5 THEN PilThenIm(cache, env)
            ELSE XmpResults(cache, env)

-----------------------------------------------------------------------------
(* variation_generator.generate_variations and the three generators.       *)

\* Tool calls that go wrong in one run of the generators.
MaxFaults == 1

\* The three source images generate_variations looks for in source_dir.
Originals == {"test_original.jpg", "test_original.png", "test_original.gif"}

\* The entries generate_variations puts first in the index.
OriginalEntries ==
    << [format |-> "jpeg", path |-> "test_original.jpg"],
       [format |-> "png",  path |-> "test_original.png"],
       [format |-> "gif",  path |-> "test_original.gif"] >>

\* An index.json left in output_dir by an earlier run.
OldIndex == JsonFile(<< [format |-> "jpeg", path |-> "test_original.jpg"] >>)

\* The hosts the generators are run on: ImageMagick installed, not
\* installed, installed with a `magick` that cannot be executed.
GenHosts ==
    { [b \in Binaries |-> "ok"],
      [b \in Binaries |-> "missing"],
      [b \in Binaries |-> IF b = "magick" THEN "denied" ELSE "ok"] }

\* if jpeg_index is not None and png_index is not None and gif_index is not None
IndexCondition(res) == \A f \in Formats : res[f].st # None

\* all_variations: the originals, then each generator's list.
AllVariations(res) ==
    OriginalEntries \o res["jpeg"].list \o res["png"].list \o res["gif"].list

\* Path(output_dir) / entry["path"] exists.
PathExists(p) == p \in files \/ (sameDir /\ p \in srcFiles)

\* The generators' state when another entry point is exercised.
GenIdle ==
    /\ impl = "functions" /\ sameDir = TRUE /\ srcFiles = {}
    /\ pc = "idle" /\ cur = "jpeg" /\ row = 1
    /\ variations_index = <<>>
    /\ result = [f \in Formats |-> Pending]
    /\ attempted = [f \in Formats |-> <<>>]
    /\ excIn = [f \in Formats |-> FALSE]
    /\ files = {} /\ indexJson = NoFile /\ ret = "none" /\ faults = 0

\* Before generate_variations(source_dir, output_dir) is called (functions),
\* or before the three generator classes are run in turn (classes).
GenStart ==
    /\ impl \in {"functions", "classes"}
    /\ \/ /\ impl = "functions"
          /\ \/ sameDir = TRUE /\ indexJson = NoFile
             \/ sameDir = FALSE /\ indexJson = OldIndex
          /\ srcFiles \in SUBSET Originals
       \/ /\ impl = "classes"
          /\ sameDir = TRUE /\ indexJson = NoFile /\ srcFiles = Originals
    /\ imagemagick_cmd = None
    /\ binState \in GenHosts
    /\ lastCall = NoCall
    /\ nCalls = 0
    /\ pc = "start" /\ cur = "jpeg" /\ row = 1
    /\ variations_index = <<>>
    /\ result = [f \in Formats |-> Pending]
    /\ attempted = [f \in Formats |-> <<>>]
    /\ excIn = [f \in Formats |-> FALSE]
    /\ files = {} /\ ret = "none" /\ faults = 0

\* The running generator returns `value`; the next one starts.
Leave(fmt, value) ==
    /\ result' = [result EXCEPT ![fmt] = value]
    /\ variations_index' = <<>>
    /\ row' = 1
    /\ cur' = CASE fmt = "jpeg" -> "png" [] fmt = "png" -> "gif" [] fmt = "gif" -> "gif"
    /\ pc' = CASE fmt = "jpeg" -> "rows" [] fmt = "png" -> "load" [] fmt = "gif" -> "finish"

\* One conversion ended as o for file `name` of the running generator.
Converted(name, o) ==
    /\ faults + o.faults <= MaxFaults
    /\ faults' = faults + o.faults
    /\ imagemagick_cmd' = o.cache
    /\ files' = IF o.written THEN files \cup {cur \o "/" \o name} ELSE files
    /\ attempted' = [attempted EXCEPT ![cur] = Append(@, name)]
    /\ excIn' = [excIn EXCEPT ![cur] = @ \/ o.exc]

\* generate_variations up to the first generator: the source checks.
GenerateVariationsStart ==
    /\ mode = "generate" /\ pc = "start"
    /\ IF impl = "functions" /\ srcFiles # Originals
       THEN pc' = "done" /\ ret' = "False"
       ELSE pc' = "rows" /\ ret' = ret
    /\ UNCHANGED <<mode, callsVars, animVars, depth16Vars, toleranceVars, imageVars, gifVars, iccVars, avifVars, otherVars, runnerVars, impl, sameDir, srcFiles, cur, row,
                   variations_index, result, attempted, excIn, files, indexJson,
                   faults, valVars>>

\* One iteration of a generator's loop over its table.
VariationRow ==
    /\ mode = "generate" /\ pc = "rows"
    /\ LET t == Specs(impl, cur)
           name == Filename(cur, t[row])
       IN  \E o \in ConvertResults(impl, cur, t[row], imagemagick_cmd, binState) :
             /\ Converted(name, o)
             /\ IF o.raised
                THEN Leave(cur, ReturnedNone)
                ELSE /\ variations_index' = Append(variations_index, Entry(cur, name))
                     /\ pc' = IF row = Len(t) THEN "crit" ELSE "rows"
                     /\ row' = IF row = Len(t) THEN 1 ELSE row + 1
                     /\ UNCHANGED <<cur, result>>
    /\ UNCHANGED <<mode, callsVars, animVars, depth16Vars, toleranceVars, imageVars, gifVars, iccVars, avifVars, otherVars, binState, lastCall, nCalls, impl, sameDir, srcFiles,
                   indexJson, ret, valVars>>

\* One file of a generator's critical combinations; after the last, their
\* entries are appended and the generator returns its list.
CriticalCombination ==
    /\ mode = "generate" /\ pc = "crit"
    /\ LET t == Critical(impl, cur)
       IN  \E o \in CriticalResults(impl, cur, row, imagemagick_cmd, binState) :
             /\ Converted(t[row], o)
             /\ IF o.raised
                THEN Leave(cur, ReturnedNone)
                ELSE IF row = Len(t)
                THEN Leave(cur, ReturnedList(variations_index \o CriticalEntries(impl, cur)))
                ELSE /\ row' = row + 1
                     /\ UNCHANGED <<pc, cur, result, variations_index>>
    /\ UNCHANGED <<mode, callsVars, animVars, depth16Vars, toleranceVars, imageVars, gifVars, iccVars, avifVars, otherVars, binState, lastCall, nCalls, impl, sameDir, srcFiles,
                   indexJson, ret, valVars>>

\* The GIF generator opens the source and copies its frames.
GifLoadSource ==
    /\ mode = "generate" /\ pc = "load"
    /\ \/ /\ pc' = "rows"
          /\ UNCHANGED <<cur, row, variations_index, result, excIn, faults>>
       \/ /\ faults < MaxFaults
          /\ faults' = faults + 1
          /\ excIn' = [excIn EXCEPT !["gif"] = TRUE]
          /\ Leave("gif", ReturnedNone)
    /\ UNCHANGED <<mode, callsVars, animVars, depth16Vars, toleranceVars, imageVars, gifVars, iccVars, avifVars, otherVars, runnerVars, impl, sameDir, srcFiles, attempted, files,
                   indexJson, ret, valVars>>

\* A mutant of GenerateVariationsFinish: the index is written from whatever
\* lists the generators returned, and True is returned.
GenerateVariationsFinishAlways ==
    /\ mode = "generate" /\ pc = "finish"
    /\ pc' = "done"
    /\ IF impl = "functions"
       THEN /\ indexJson' = JsonFile(AllVariations(result))
            /\ ret' = "True"
       ELSE UNCHANGED <<indexJson, ret>>
    /\ UNCHANGED <<mode, callsVars, animVars, depth16Vars, toleranceVars, imageVars, gifVars, iccVars, avifVars, otherVars, runnerVars, impl, sameDir, srcFiles, cur, row,
                   variations_index, result, attempted, excIn, files, faults,
                   valVars>>

\* generate_variations after the three generators: the index and the result.
GenerateVariationsFinish ==
    /\ mode = "generate" /\ pc = "finish"
    /\ pc' = "done"
    /\ IF impl = "functions"
       THEN IF IndexCondition(result)
            THEN indexJson' = JsonFile(AllVariations(result)) /\ ret' = "True"
            ELSE indexJson' = indexJson /\ ret' = "False"
       ELSE UNCHANGED <<indexJson, ret>>
    /\ UNCHANGED <<mode, callsVars, animVars, depth16Vars, toleranceVars, imageVars, gifVars, iccVars, avifVars, otherVars, runnerVars, impl, sameDir, srcFiles, cur, row,
                   variations_index, result, attempted, excIn, files, faults,
                   valVars>>

-----------------------------------------------------------------------------
(* ValidationResult (validators/jpeg.py and variation_validator.py hold    *)
(* the same class). Of a tests entry the model keeps the `passed` flag, of *)
(* an errors entry the test name it starts with.                           *)

EmptyDict == [n \in {} |-> TRUE]

\* self.tests[test_name] = {...}: a new key is added, an old one overwritten.
Put(d, k, v) == [n \in (DOMAIN d) \cup {k} |-> IF n = k THEN v ELSE d[n]]

\* ValidationResult.__init__
NewResult(name, cat, vtype) ==
    [filename |-> name, category |-> cat, variation_type |-> vtype,
     tests |-> EmptyDict, passed |-> TRUE, errors |-> <<>>]

\* A variant of add_test whose passed flag follows the last call.
add_test_last_wins(res, test_name, ok) ==
    [res EXCEPT !.tests = Put(@, test_name, ok),
                !.passed = ok,
                !.errors = IF ok THEN @ ELSE Append(@, test_name)]

\* ValidationResult.add_test
add_test(res, test_name, ok) ==
    [res EXCEPT !.tests = Put(@, test_name, ok),
                !.passed = IF ok THEN @ ELSE FALSE,
                !.errors = IF ok THEN @ ELSE Append(@, test_name)]

-----------------------------------------------------------------------------
(* The JPEG validator: validate_jpeg_variations / validate_jpeg_file and   *)
(* JpegValidator.validate_variations / _validate_file (the same code).     *)

T(f, s) == [filename |-> f, specs |-> s]

\* jpeg_specs, in the order the dictionary is written and iterated
JpegExpectations == <<
    T("colorspace_rgb.jpg", [colorspace |-> "RGB"]),
    T("colorspace_cmyk.jpg", [colorspace |-> "CMYK"]),
    T("colorspace_grayscale.jpg", [colorspace |-> "L"]),
    T("quality_20.jpg", [quality_range |-> <<15, 25>>]),
    T("quality_50.jpg", [quality_range |-> <<45, 55>>]),
    T("quality_80.jpg", [quality_range |-> <<75, 85>>]),
    T("quality_95.jpg", [quality_range |-> <<90, 100>>]),
    T("encoding_baseline.jpg", [progressive |-> FALSE]),
    T("encoding_progressive.jpg", [progressive |-> TRUE]),
    T("thumbnail_none.jpg", [has_thumbnail |-> FALSE]),
    T("thumbnail_embedded.jpg", [has_thumbnail |-> TRUE]),
    T("subsampling_444.jpg", [subsampling |-> "4:4:4"]),
    T("subsampling_422.jpg", [subsampling |-> "4:2:2"]),
    T("subsampling_420.jpg", [subsampling |-> "4:2:0"]),
    T("icc_none.jpg", [has_icc_profile |-> FALSE]),
    T("icc_srgb.jpg", [has_icc_profile |-> TRUE, colorspace_hint |-> "sRGB"]),
    T("icc_adobergb.jpg", [has_icc_profile |-> TRUE, colorspace_hint |-> "Adobe"]),
    T("metadata_none.jpg", [has_exif |-> FALSE]),
    T("metadata_basic_exif.jpg", [has_exif |-> TRUE, min_exif_tags |-> 1]),
    T("metadata_gps.jpg", [has_exif |-> TRUE, has_gps |-> TRUE]),
    T("metadata_full_exif.jpg", [has_exif |-> TRUE, min_exif_tags |-> 10]),
    T("metadata_xmp.jpg", [has_xmp |-> TRUE]),
    T("metadata_iptc.jpg", [has_iptc |-> TRUE]),
    T("orientation_1.jpg", [orientation |-> 1]),
    T("orientation_3.jpg", [orientation |-> 3]),
    T("orientation_6.jpg", [orientation |-> 6]),
    T("orientation_8.jpg", [orientation |-> 8]),
    T("dpi_jfif_units0.jpg", [dpi_type |-> "jfif_units0"]),
    T("dpi_jfif_72dpi.jpg", [dpi_type |-> "jfif_72dpi", expected_dpi |-> 72]),
    T("dpi_jfif_200dpi.jpg", [dpi_type |-> "jfif_200dpi", expected_dpi |-> 200]),
    T("dpi_exif_72dpi.jpg", [dpi_type |-> "exif_72dpi", expected_dpi |-> 72]),
    T("dpi_exif_200dpi.jpg", [dpi_type |-> "exif_200dpi", expected_dpi |-> 200]) >>

\* What the validator reads from a JPEG file. exif is what piexif.load
\* gives: it raises, or the number of tags in the 0th and Exif IFDs, the GPS
\* IFD and thumbnail being there, the Orientation tag (0: no such tag) and
\* XResolution as <<numerator, denominator>> (<<>>: no such tag). dpi is
\* img.info's dpi (0: none), subsampling "unknown" what identify could not tell.
NoExif ==
    [load |-> "raises", tags |-> 0, gps |-> FALSE, thumbnail |-> FALSE,
     orientation |-> 0, xres |-> <<>>]

ExifDatas ==
    {NoExif} \cup
    { e \in [load : {"ok"}, tags : {0, 12}, gps : BOOLEAN, thumbnail : BOOLEAN,
             orientation : {0, 1, 3, 6, 8}, xres : {<<>>, <<72, 1>>}] :
        e.tags = 0 => (e.orientation = 0 /\ e.xres = <<>>) }

\* A file PIL cannot open.
UnreadableFile ==
    [readable |-> FALSE, mode |-> "RGB", size |-> 0, subsampling |-> "unknown",
     icc |-> FALSE, exif |-> NoExif, dpi |-> 0, xmp |-> FALSE, iptc |-> FALSE]

JpegFiles ==
    {UnreadableFile} \cup
    [readable : {TRUE}, mode : {"RGB", "CMYK"}, size : {20000, 150000},
     subsampling : {"4:2:0", "unknown"}, icc : BOOLEAN, exif : ExifDatas,
     dpi : {0, 72}, xmp : BOOLEAN, iptc : BOOLEAN]

Has(specs, key) == key \in DOMAIN specs

\* dpi_type.startswith('jfif_') and dpi_type.startswith('exif_')
JfifTypes == {"jfif_units0", "jfif_72dpi", "jfif_200dpi"}
ExifTypes == {"exif_72dpi", "exif_200dpi"}

\* if quality_range[0] <= 30: ... elif ... <= 60: ... elif ... <= 85: ... else
ExpectedSizeRange(quality_range) ==
    IF quality_range[1] <= 30 THEN <<15000, 80000>>
    ELSE IF quality_range[1] <= 60 THEN <<25000, 120000>>
    ELSE IF quality_range[1] <= 85 THEN <<50000, 200000>>
    ELSE <<100000, 400000>>

\* A variant of ExifDpiMatch with an exclusive tolerance.
ExifDpiMatchExclusive(xres, expected_dpi) ==
    IF xres[2] = 0
    THEN expected_dpi < 1
    ELSE /\ xres[1] - expected_dpi * xres[2] < xres[2]
         /\ expected_dpi * xres[2] - xres[1] < xres[2]

\* abs(x_res[0] / x_res[1] - expected_dpi) <= 1, a zero denominator read as 0
ExifDpiMatch(xres, expected_dpi) ==
    IF xres[2] = 0
    THEN expected_dpi <= 1
    ELSE /\ xres[1] - expected_dpi * xres[2] <= xres[2]
         /\ expected_dpi * xres[2] - xres[1] <= xres[2]

\* The tests on DPI: the body of `if 'dpi_type' in expected_specs`.
DpiTests(res, file, expected_specs) ==
    LET dpi_type == expected_specs.dpi_type
        x_res == file.exif.xres
    IN  IF dpi_type = "jfif_units0"
        THEN add_test(res, "dpi_no_exif_resolution", x_res = <<>>)
        ELSE IF ~Has(expected_specs, "expected_dpi")
        THEN res
        ELSE IF dpi_type \in JfifTypes
        THEN IF file.dpi # 0
             THEN add_test(res, "jfif_dpi",
                           /\ file.dpi - expected_specs.expected_dpi <= 1
                           /\ expected_specs.expected_dpi - file.dpi <= 1)
             ELSE add_test(res, "jfif_dpi", FALSE)
        ELSE IF dpi_type \in ExifTypes
        THEN IF x_res # <<>>
             THEN add_test(res, "exif_dpi",
                           ExifDpiMatch(x_res, expected_specs.expected_dpi))
             ELSE add_test(res, "exif_dpi", FALSE)
        ELSE res

\* The body of `if 'has_exif' in expected_specs`: piexif.load and the tests
\* written inside its try.
ExifTests(res, file, expected_specs) ==
    IF file.exif.load = "raises"
    THEN add_test(res, "exif_readable", ~expected_specs.has_exif)
    ELSE LET exif_data == file.exif
             has_exif == exif_data.tags > 0
             e1 == add_test(res, "has_exif", has_exif = expected_specs.has_exif)
             e2 == IF Has(expected_specs, "min_exif_tags") /\ has_exif
                   THEN add_test(e1, "min_exif_tags",
                                 exif_data.tags >= expected_specs.min_exif_tags)
                   ELSE e1
             e3 == IF Has(expected_specs, "has_gps")
                   THEN add_test(e2, "has_gps", exif_data.gps = expected_specs.has_gps)
                   ELSE e2
             e4 == IF Has(expected_specs, "has_thumbnail")
                   THEN add_test(e3, "has_thumbnail",
                                 exif_data.thumbnail = expected_specs.has_thumbnail)
                   ELSE e3
             e5 == IF Has(expected_specs, "orientation")
                   THEN add_test(e4, "orientation",
                                 exif_data.orientation = expected_specs.orientation)
                   ELSE e4
         IN  IF Has(expected_specs, "dpi_type")
             THEN DpiTests(e5, file, expected_specs)
             ELSE e5

\* validate_jpeg_file(file_path, filename, expected_specs) /
\* JpegValidator._validate_file, `file` being what file_path holds.
validate_jpeg_file(file, filename, expected_specs) ==
    LET r0 == NewResult(filename, "jpeg", "variation")
    IN  IF ~file.readable
        THEN add_test(r0, "file_readable", FALSE)
        ELSE
        LET r1 == add_test(r0, "file_readable", TRUE)
            r2 == IF Has(expected_specs, "colorspace")
                  THEN add_test(r1, "color_mode", file.mode = expected_specs.colorspace)
                  ELSE r1
            r3 == IF Has(expected_specs, "quality_range")
                  THEN LET s == ExpectedSizeRange(expected_specs.quality_range)
                       IN  add_test(r2, "quality_file_size",
                                    s[1] <= file.size /\ file.size <= s[2])
                  ELSE r2
            r4 == IF Has(expected_specs, "progressive")
                  THEN add_test(r3, "progressive_encoding", TRUE)
                  ELSE r3
            r5 == IF Has(expected_specs, "subsampling")
                  THEN IF file.subsampling # "unknown"
                       THEN add_test(r4, "subsampling",
                                     file.subsampling = expected_specs.subsampling)
                       ELSE add_test(r4, "subsampling", FALSE)
                  ELSE r4
            r6 == IF Has(expected_specs, "has_icc_profile")
                  THEN add_test(r5, "has_icc_profile",
                                file.icc = expected_specs.has_icc_profile)
                  ELSE r5
            r7 == IF Has(expected_specs, "has_exif")
                  THEN ExifTests(r6, file, expected_specs)
                  ELSE r6
            r8 == IF Has(expected_specs, "has_xmp")
                  THEN add_test(r7, "has_xmp", file.xmp = expected_specs.has_xmp)
                  ELSE r7
        IN  IF Has(expected_specs, "has_iptc")
            THEN add_test(r8, "has_iptc", file.iptc = expected_specs.has_iptc)
            ELSE r8

\* A mutant of MissingResult: the file is handed to validate_jpeg_file
\* without the existence check.
MissingResultUnchecked(filename) ==
    validate_jpeg_file(UnreadableFile, filename, [has_exif |-> FALSE])

\* The else branch of `if file_path.exists()`:
\* ValidationResult(filename, 'jpeg', 'missing', specs) with file_exists failed.
MissingResult(filename) ==
    add_test(NewResult(filename, "jpeg", "missing"), "file_exists", FALSE)

\* Files of the validated directory that are not an ordinary readable JPEG.
MaxOddFiles == 1

\* add_test calls made on one ValidationResult.
MaxAdds == 3

TableNames == { JpegExpectations[k].filename : k \in 1..Len(JpegExpectations) }

\* An ordinary JPEG without metadata, and one carrying all of it.
PlainFile ==
    [readable |-> TRUE, mode |-> "RGB", size |-> 150000, subsampling |-> "4:2:0",
     icc |-> FALSE,
     exif |-> [load |-> "ok", tags |-> 0, gps |-> FALSE, thumbnail |-> FALSE,
               orientation |-> 0, xres |-> <<>>],
     dpi |-> 72, xmp |-> FALSE, iptc |-> FALSE]

RichFile ==
    [readable |-> TRUE, mode |-> "RGB", size |-> 150000, subsampling |-> "4:2:0",
     icc |-> TRUE,
     exif |-> [load |-> "ok", tags |-> 12, gps |-> TRUE, thumbnail |-> TRUE,
               orientation |-> 6, xres |-> <<72, 1>>],
     dpi |-> 72, xmp |-> TRUE, iptc |-> TRUE]

\* What jpeg_dir holds under a table filename.
FileOf(content) ==
    CASE content = "plain" -> PlainFile
      [] content = "rich" -> RichFile
      [] content = "unreadable" -> UnreadableFile

\* The directories handed to the validator: every table file an ordinary
\* JPEG, but for at most k that are absent, unreadable or rich in metadata.
RECURSIVE Directories(_)
Directories(k) ==
    IF k = 0
    THEN { [n \in TableNames |-> "plain"] }
    ELSE LET D == Directories(k - 1)
         IN  D \cup { [d EXCEPT ![n] = c] :
                      d \in D, n \in TableNames, c \in {"absent", "unreadable", "rich"} }

\* expected_specs a caller of validate_jpeg_file passes besides the table's.
DirectCalls == <<
    T("orientation_6.jpg", [has_exif |-> TRUE, orientation |-> 6]),
    T("thumbnail_embedded.jpg", [has_exif |-> TRUE, has_thumbnail |-> TRUE]) >>

\* test names recorded through add_test by a caller of ValidationResult
TestNames == {"file_exists", "file_readable", "format"}

\* The validators' state when another entry point is exercised.
ValIdle ==
    /\ jpegDir = [n \in TableNames |-> "plain"]
    /\ vpos = 1 /\ results = <<>>
    /\ callFilename = "" /\ callSpecs = [has_exif |-> FALSE]
    /\ callFile = UnreadableFile
    /\ vr = NewResult("", "", "")
    /\ nAdds = 0 /\ vdone = FALSE

\* Before validate_jpeg_variations(jpeg_dir) is called.
ValidateStart ==
    /\ jpegDir \in Directories(MaxOddFiles)
    /\ vpos = 1 /\ results = <<>>
    /\ callFilename = "" /\ callSpecs = [has_exif |-> FALSE]
    /\ callFile = UnreadableFile
    /\ vr = NewResult("", "", "")
    /\ nAdds = 0 /\ vdone = FALSE

\* Before a caller invokes validate_jpeg_file on one file.
FileStart ==
    /\ jpegDir = [n \in TableNames |-> "plain"]
    /\ vpos = 1 /\ results = <<>>
    /\ \E t \in { JpegExpectations[k] : k \in 1..Len(JpegExpectations) }
              \cup { DirectCalls[k] : k \in 1..Len(DirectCalls) } :
         callFilename = t.filename /\ callSpecs = t.specs
    /\ callFile \in JpegFiles
    /\ vr = NewResult("", "", "")
    /\ nAdds = 0 /\ vdone = FALSE

\* A ValidationResult just constructed.
ResultStart ==
    /\ jpegDir = [n \in TableNames |-> "plain"]
    /\ vpos = 1 /\ results = <<>>
    /\ callFilename = "quality_20.jpg" /\ callSpecs = [has_exif |-> FALSE]
    /\ callFile = UnreadableFile
    /\ vr = NewResult("quality_20.jpg", "jpeg", "variation")
    /\ nAdds = 0 /\ vdone = FALSE

\* One iteration of the loop over jpeg_specs, the file being there.
ValidateExisting ==
    /\ mode = "validate" /\ ~vdone /\ vpos <= Len(JpegExpectations)
    /\ LET t == JpegExpectations[vpos]
       IN  /\ jpegDir[t.filename] # "absent"
           /\ results' = Append(results,
                  validate_jpeg_file(FileOf(jpegDir[t.filename]), t.filename, t.specs))
    /\ vpos' = vpos + 1
    /\ UNCHANGED <<mode, callsVars, animVars, depth16Vars, toleranceVars, imageVars, gifVars, iccVars, avifVars, otherVars, runnerVars, genVars, jpegDir, callFilename, callSpecs,
                   callFile, vr, nAdds, vdone>>

\* One iteration of the loop over jpeg_specs, the file not being there.
ValidateMissing ==
    /\ mode = "validate" /\ ~vdone /\ vpos <= Len(JpegExpectations)
    /\ LET t == JpegExpectations[vpos]
       IN  /\ jpegDir[t.filename] = "absent"
           /\ results' = Append(results, MissingResult(t.filename))
    /\ vpos' = vpos + 1
    /\ UNCHANGED <<mode, callsVars, animVars, depth16Vars, toleranceVars, imageVars, gifVars, iccVars, avifVars, otherVars, runnerVars, genVars, jpegDir, callFilename, callSpecs,
                   callFile, vr, nAdds, vdone>>

\* return results
ValidateReturn ==
    /\ mode = "validate" /\ ~vdone /\ vpos > Len(JpegExpectations)
    /\ vdone' = TRUE
    /\ UNCHANGED <<mode, callsVars, animVars, depth16Vars, toleranceVars, imageVars, gifVars, iccVars, avifVars, otherVars, runnerVars, genVars, jpegDir, vpos, results, callFilename,
                   callSpecs, callFile, vr, nAdds>>

\* A call of validate_jpeg_file on one file.
ValidateFile ==
    /\ mode = "file" /\ ~vdone
    /\ vr' = validate_jpeg_file(callFile, callFilename, callSpecs)
    /\ vdone' = TRUE
    /\ UNCHANGED <<mode, callsVars, animVars, depth16Vars, toleranceVars, imageVars, gifVars, iccVars, avifVars, otherVars, runnerVars, genVars, jpegDir, vpos, results, callFilename,
                   callSpecs, callFile, nAdds>>

\* A caller records one test on the ValidationResult.
AddTest ==
    /\ mode = "result" /\ nAdds < MaxAdds
    /\ \E n \in TestNames, ok \in BOOLEAN : vr' = add_test(vr, n, ok)
    /\ nAdds' = nAdds + 1
    /\ UNCHANGED <<mode, callsVars, animVars, depth16Vars, toleranceVars, imageVars, gifVars, iccVars, avifVars, otherVars, runnerVars, genVars, jpegDir, vpos, results, callFilename,
                   callSpecs, callFile, vdone>>

-----------------------------------------------------------------------------
(* The AVIF validator: AvifValidator._validate_file.                       *)

\* for subdir in ['lossy', 'lossless', 'animation']
AvifSubdirs == <<"lossy", "lossless", "animation">>

\* What the validator finds under file_path. pil is what Image.open does:
\* it raises, or gives img.format; sizeOk is img.size[0] > 0 and
\* img.size[1] > 0. identify is what subprocess.run(['magick', 'identify',
\* ...]) does: it raises, exits non-zero, exits 0 without 'AVIF' in stdout,
\* or exits 0 with 'AVIF' in stdout and a first line of at least three
\* parts ("avif") or fewer ("avif_short").
AvifFiles ==
    [exists : BOOLEAN, pil : {"raises", "AVIF", "HEIF", "PNG"}, sizeOk : BOOLEAN,
     identify : {"raises", "nonzero", "other", "avif", "avif_short"}]

\* expected_specs: {'subtype': subdir} from validate_variations, or without it.
AvifSpecs == { [subtype |-> AvifSubdirs[k]] : k \in 1..Len(AvifSubdirs) } \cup {EmptyDict}

\* [error for error in result.errors if 'pil_readable' not in error]
NotPilError(error) == error # "pil_readable"

\* The validator without the lines that override the passed status.
AvifNoOverride(res) == res

\* The lines after `if not pil_readable and imagemagick_success:`.
AvifOverride(res) ==
    IF \A k \in DOMAIN res.tests \ {"pil_readable"} : res.tests[k]
    THEN LET r == add_test([res EXCEPT !.passed = TRUE], "pil_readable", TRUE)
         IN  [r EXCEPT !.errors = SelectSeq(@, NotPilError)]
    ELSE res

\* AvifValidator._validate_file(file_path, filename, expected_specs),
\* `file` being what file_path holds.
validate_avif_file(file, filename, expected_specs) ==
    LET r0 == NewResult(filename, "avif", "variation")
    IN  IF ~file.exists
        THEN add_test(r0, "file_exists", FALSE)
        ELSE
        LET r1 == add_test(r0, "file_exists", TRUE)
            pil_readable == file.pil # "raises"
            r2 == IF pil_readable
                  THEN add_test(add_test(add_test(r1, "pil_readable", TRUE),
                                         "format", file.pil \in {"AVIF", "HEIF"}),
                                "dimensions", file.sizeOk)
                  ELSE add_test(r1, "pil_readable", FALSE)
            imagemagick_success == ~pil_readable /\ file.identify \in {"avif", "avif_short"}
            r3 == IF pil_readable
                  THEN r2
                  ELSE IF imagemagick_success
                  THEN LET i == add_test(add_test(r2, "imagemagick_valid", TRUE),
                                         "format", TRUE)
                       IN  IF file.identify = "avif"
                           THEN add_test(i, "dimensions", TRUE)
                           ELSE i
                  ELSE add_test(r2, "imagemagick_valid", FALSE)
            r4 == IF (pil_readable \/ imagemagick_success) /\ Has(expected_specs, "subtype")
                  THEN add_test(r3, "subtype", TRUE)
                  ELSE r3
        IN  IF ~pil_readable /\ imagemagick_success
            THEN AvifOverride(r4)
            ELSE r4

\* Before a caller invokes AvifValidator._validate_file on one file.
AvifFileStart ==
    /\ jpegDir = [n \in TableNames |-> "plain"]
    /\ vpos = 1 /\ results = <<>>
    /\ callFilename \in {"quality_50.avif", "lossless.avif"}
    /\ callSpecs \in AvifSpecs
    /\ callFile \in AvifFiles
    /\ vr = NewResult("", "", "")
    /\ nAdds = 0 /\ vdone = FALSE

\* A call of AvifValidator._validate_file on one file.
ValidateAvifFile ==
    /\ mode = "avif" /\ ~vdone
    /\ vr' = validate_avif_file(callFile, callFilename, callSpecs)
    /\ vdone' = TRUE
    /\ UNCHANGED <<mode, callsVars, animVars, depth16Vars, toleranceVars, imageVars, gifVars, iccVars, avifVars, otherVars, runnerVars, genVars, jpegDir, vpos, results, callFilename,
                   callSpecs, callFile, nAdds>>

-----------------------------------------------------------------------------
(* The comparator (image_comparator.py). A result dict is a function from  *)
(* the keys it holds to their values; file_a and file_b, the paths as      *)
(* strings, and the standard deviations psnr_std and ssim_std are not      *)
(* kept. PSNR is in whole dB, SSIM in thousandths, a frame rate in         *)
(* hundredths of a frame per second.                                       *)

\* Python's None where the other values of the key are numbers.
NoneNumber == -1

\* np.inf, which peak_signal_noise_ratio gives for identical arrays.
Infinity == 9999

\* psnr_values.append(100.0): the value kept for an infinite frame PSNR.
SaturatedPsnr == 100

\* structural_similarity of identical arrays: 1.0.
SsimOne == 1000

\* result.update(d)
Update(result_, d) ==
    [k \in (DOMAIN result_) \cup (DOMAIN d) |-> IF k \in DOMAIN d THEN d[k] ELSE result_[k]]

\* The relative paths of the model, as sorted() orders them.
SortedPaths == <<"a.jpg", "anim.gif", "c.avif", "notes.txt">>

CmpPaths == { SortedPaths[k] : k \in 1..Len(SortedPaths) }

\* file_path.suffix.lower()
Suffix(path) ==
    CASE path = "a.jpg" -> ".jpg"
      [] path = "anim.gif" -> ".gif"
      [] path = "c.avif" -> ".avif"
      [] path = "notes.txt" -> ".txt"

image_extensions == {".jpg", ".jpeg", ".png", ".bmp", ".tiff", ".tif", ".gif", ".webp", ".avif"}

\* An image as PIL sees it: px names its pixel content, 0 being content on
\* which the metrics computation raises.
Img(w, h, m, px) == [width |-> w, height |-> h, mode |-> m, px |-> px]

\* peak_signal_noise_ratio and structural_similarity of two arrays of one
\* shape: infinite and 1.0 for identical arrays, lower the more they differ.
Distance(p, q) == IF p >= q THEN p - q ELSE q - p

\* _calculate_image_metrics(img_a, img_b): <<psnr, ssim>>, or <<>> when it raises.
CalculateImageMetrics(img_a, img_b) ==
    IF img_a.px = 0 \/ img_b.px = 0
    THEN <<>>
    ELSE IF img_a.px = img_b.px
    THEN <<Infinity, SsimOne>>
    ELSE <<40 - 10 * Distance(img_a.px, img_b.px),
           SsimOne - 100 * Distance(img_a.px, img_b.px) - 50>>

\* A file of one of the directories. size is st_size; open is what
\* Image.open does; frames are the frames _extract_gif_frames gets from a
\* GIF (one image for a static file); duration is info['duration'];
\* identify is what `magick identify -format '%wx%h %m %f'` does: it raises,
\* exits non-zero, prints fewer than two parts, or prints the resolution.
CmpFile(sz, op, fr, dur, ident) ==
    [size |-> sz, open |-> op, frames |-> fr, duration |-> dur, identify |-> ident]

\* np.min, np.max and np.mean of a non-empty list
MinOf(values) ==
    CHOOSE x \in { values[k] : k \in 1..Len(values) } :
        \A k \in 1..Len(values) : x <= values[k]

MaxOf(values) ==
    CHOOSE x \in { values[k] : k \in 1..Len(values) } :
        \A k \in 1..Len(values) : x >= values[k]

RECURSIVE SumOf(_)
SumOf(values) ==
    IF values = <<>> THEN 0 ELSE Head(values) + SumOf(Tail(values))

MeanOf(values) == SumOf(values) \div Len(values)

\* The loop `for i in range(min_frames)`: the values appended to psnr_values
\* (which = 1) or to ssim_values (which = 2) over the first n frames.
RECURSIVE FrameValues(_, _, _, _)
FrameValues(frames_a, frames_b, n, which) ==
    IF n = 0
    THEN <<>>
    ELSE LET rest == FrameValues(frames_a, frames_b, n - 1, which)
             m == CalculateImageMetrics(frames_a[n], frames_b[n])
         IN  IF m = <<>>
             THEN rest
             ELSE IF which = 1 /\ m[1] = Infinity
             THEN Append(rest, SaturatedPsnr)
             ELSE Append(rest, m[which])

\* round(1000 / duration, 2) if duration > 0 else None
Framerate(duration) ==
    IF duration > 0 THEN 100000 \div duration ELSE NoneNumber

\* The resolution as formatted: f"{width}x{height}"
Resolution(img) == <<img.width, img.height>>

\* The keys both comparisons of opened images set from the first images.
BasicProperties(img_a, img_b) ==
    [resolution_a |-> Resolution(img_a), resolution_b |-> Resolution(img_b),
     resolution_match |-> (img_a.width = img_b.width /\ img_a.height = img_b.height),
     mode_a |-> img_a.mode, mode_b |-> img_b.mode,
     mode_match |-> (img_a.mode = img_b.mode)]

\* A variant that reports the mean over the frames instead of the minimum.
AggregatesOfMean(key, values) ==
    IF values = <<>>
    THEN IF key = "psnr" THEN [psnr |-> NoneNumber] ELSE [ssim |-> NoneNumber]
    ELSE IF key = "psnr"
    THEN [psnr |-> MeanOf(values), psnr_min |-> MinOf(values),
          psnr_max |-> MaxOf(values), psnr_mean |-> MeanOf(values)]
    ELSE [ssim |-> MeanOf(values), ssim_min |-> MinOf(values),
          ssim_max |-> MaxOf(values), ssim_mean |-> MeanOf(values)]

\* The aggregates of a non-empty list of frame values under the keys
\* psnr.. or ssim..; None under the plain key for an empty list.
Aggregates(key, values) ==
    IF values = <<>>
    THEN IF key = "psnr" THEN [psnr |-> NoneNumber] ELSE [ssim |-> NoneNumber]
    ELSE IF key = "psnr"
    THEN [psnr |-> MinOf(values), psnr_min |-> MinOf(values),
          psnr_max |-> MaxOf(values), psnr_mean |-> MeanOf(values)]
    ELSE [ssim |-> MinOf(values), ssim_min |-> MinOf(values),
          ssim_max |-> MaxOf(values), ssim_mean |-> MeanOf(values)]

\* _compare_gif_animations: the branch of equal resolution and frame count.
GifFrameMetrics(frames_a, frames_b) ==
    LET psnr_values == FrameValues(frames_a, frames_b, Len(frames_a), 1)
        ssim_values == FrameValues(frames_a, frames_b, Len(frames_a), 2)
    IN  Update(Update(Aggregates("psnr", psnr_values), Aggregates("ssim", ssim_values)),
               [frames_compared |-> Len(psnr_values)])

\* A variant of that branch looking at the frame counts first.
GifNoMetricsCountFirst(resolution_match, frame_count_match) ==
    [psnr |-> NoneNumber, ssim |-> NoneNumber,
     metrics_error |-> IF ~frame_count_match THEN "Frame count mismatch"
                       ELSE IF ~resolution_match THEN "Resolution mismatch"
                       ELSE "Unknown error"]

\* The else branch of `if result['resolution_match'] and result['frame_count_match']`.
GifNoMetrics(resolution_match, frame_count_match) ==
    [psnr |-> NoneNumber, ssim |-> NoneNumber,
     metrics_error |-> IF ~resolution_match THEN "Resolution mismatch"
                       ELSE IF ~frame_count_match THEN "Frame count mismatch"
                       ELSE "Unknown error"]

\* _compare_gif_animations(gif_a_path, gif_b_path)
compare_gif_animations(a, b) ==
    IF a.open = "raises" \/ b.open = "raises"
    THEN [metrics_error |-> "GIF comparison error", psnr |-> NoneNumber,
          ssim |-> NoneNumber]
    ELSE
    LET frames_a == a.frames
        frames_b == b.frames
        r1 == [frames_a |-> Len(frames_a), frames_b |-> Len(frames_b),
               frame_count_match |-> (Len(frames_a) = Len(frames_b)),
               framerate_a |-> Framerate(a.duration),
               framerate_b |-> Framerate(b.duration),
               framerate_match |-> (Framerate(a.duration) = Framerate(b.duration))]
    IN  IF frames_a # <<>> /\ frames_b # <<>>
        THEN LET r2 == Update(r1, BasicProperties(frames_a[1], frames_b[1]))
             IN  IF r2.resolution_match /\ r2.frame_count_match
                 THEN Update(r2, GifFrameMetrics(frames_a, frames_b))
                 ELSE Update(r2, GifNoMetrics(r2.resolution_match, r2.frame_count_match))
        ELSE Update(r1, [psnr |-> NoneNumber, ssim |-> NoneNumber,
                         metrics_error |-> "Failed to extract frames"])

\* The resolution _compare_avif_images records for one path: parts[0] of
\* identify's output, "unknown" or "error". A resolution is kept as
\* <<width, height>>, the two words as <<0, 0>> and <<0, -1>>.
UnknownResolution == <<0, 0>>

ErrorResolution == <<0, -1>>

AvifResolution(f) ==
    CASE f.identify = "ok" -> Resolution(f.frames[1])
      [] f.identify = "short" -> UnknownResolution
      [] OTHER -> ErrorResolution

\* format_name = parts[1], "unknown" or "error"
AvifFormat(f) ==
    CASE f.identify = "ok" -> "AVIF"
      [] f.identify = "short" -> "unknown"
      [] OTHER -> "error"

\* _compare_avif_images(image_a_path, image_b_path)
compare_avif_images(a, b) ==
    LET res_a == AvifResolution(a)
        res_b == AvifResolution(b)
    IN  [resolution_a |-> res_a, format_a |-> AvifFormat(a),
         resolution_b |-> res_b, format_b |-> AvifFormat(b),
         resolution_match |-> (res_a = res_b /\ res_a # ErrorResolution
                               /\ res_a # UnknownResolution),
         mode_a |-> "AVIF", mode_b |-> "AVIF", mode_match |-> TRUE,
         psnr |-> NoneNumber, ssim |-> NoneNumber,
         quality_note |-> "AVIF quality metrics require specialized tools"]

\* The branch of _compare_images for static images, read with PIL.
CompareStatic(img_a, img_b) ==
    LET r == BasicProperties(img_a, img_b)
    IN  IF r.resolution_match
        THEN LET m == CalculateImageMetrics(img_a, img_b)
             IN  IF m = <<>>
                 THEN Update(r, [psnr |-> NoneNumber, ssim |-> NoneNumber,
                                 metrics_error |-> "metrics failed"])
                 ELSE Update(r, [psnr |-> m[1], ssim |-> m[2]])
        ELSE Update(r, [psnr |-> NoneNumber, ssim |-> NoneNumber,
                        metrics_error |-> "Resolution mismatch"])

\* _compare_images(image_a_path, image_b_path, filename), a and b being
\* what the two paths hold. size_ratio is kept in hundredths.
compare_images(a, b, filename) ==
    LET r0 == [filename |-> filename, error |-> None]
        r1 == Update(r0, [size_a |-> a.size, size_b |-> b.size,
                          size_diff |-> b.size - a.size,
                          size_ratio |-> IF a.size > 0
                                         THEN (100 * b.size) \div a.size ELSE 0])
    IN  IF Suffix(filename) = ".gif"
        THEN Update(r1, compare_gif_animations(a, b))
        ELSE IF Suffix(filename) = ".avif"
        THEN Update(r1, compare_avif_images(a, b))
        ELSE IF a.open = "raises" \/ b.open = "raises"
        THEN [r1 EXCEPT !.error = "cannot identify image file"]
        ELSE Update(r1, CompareStatic(a.frames[1], b.frames[1]))

\* Frames a GIF of the model holds at most.
MaxFrames == 2

\* Sequences of length at most n over S.
RECURSIVE SeqsUpTo(_, _)
SeqsUpTo(S, n) ==
    IF n = 0
    THEN { <<>> }
    ELSE LET Q == SeqsUpTo(S, n - 1)
         IN  Q \cup { Append(q, x) : q \in { r \in Q : Len(r) = n - 1 }, x \in S }

\* A file PIL cannot open and identify cannot read.
BrokenFile == CmpFile(0, "raises", <<>>, 0, "raises")

\* The static image files of the model.
StaticFiles ==
    {BrokenFile} \cup
    { CmpFile(sz, "ok", <<Img(w, h, m, px)>>, 0, "ok") :
        sz \in {1000, 2000}, w \in {32, 64}, h \in {32, 64}, m \in {"RGB", "L"},
        px \in 0..2 }

\* The GIF files of the model: the frames of one file share size and mode.
GifFiles ==
    {BrokenFile} \cup
    { CmpFile(1000, "ok", [k \in 1..Len(q) |-> Img(w, h, "RGBA", q[k])], d, "ok") :
        q \in SeqsUpTo(0..2, MaxFrames), w \in {32, 64}, h \in {32, 64},
        d \in {0, 100} }

\* The AVIF files of the model.
AvifCmpFiles ==
    { CmpFile(1000, "raises", <<Img(w, 32, "RGB", 1)>>, 0, i) :
        w \in {32, 64}, i \in {"ok", "short", "nonzero", "raises"} }

\* The image paths of the model and the files each can hold.
ImagePaths == { p \in CmpPaths : Suffix(p) \in image_extensions }

FilesOfPath(p) ==
    CASE Suffix(p) = ".gif" -> GifFiles
      [] Suffix(p) = ".avif" -> AvifCmpFiles
      [] OTHER -> StaticFiles

\* What a directory holds under a path: nothing, or one of two files.
Content(p, v) ==
    CASE Suffix(p) = ".gif" ->
           IF v = 1
           THEN CmpFile(1000, "ok", <<Img(64, 64, "RGBA", 1), Img(64, 64, "RGBA", 2)>>, 100, "ok")
           ELSE CmpFile(1000, "ok", <<Img(64, 64, "RGBA", 1)>>, 100, "ok")
      [] Suffix(p) = ".avif" ->
           CmpFile(1000, "raises", <<Img(32 * v, 32, "RGB", 1)>>, 0, "ok")
      [] OTHER ->
           CmpFile(1000 * v, "ok", <<Img(64, 64, "RGB", v)>>, 0, "ok")

\* A directory: whether it exists, and what it holds under each path
\* (0: nothing).
CmpDirs ==
    { [exists |-> FALSE, files |-> [p \in CmpPaths |-> 0]] } \cup
    [exists : {TRUE}, files : [CmpPaths -> 0..2]]

\* A variant of _get_image_files that skips the suffix test.
GetImageFilesAnySuffix(directory) ==
    { p \in CmpPaths : directory.files[p] # 0 }

\* _get_image_files(directory): the keys of the dict it returns.
GetImageFiles(directory) ==
    { p \in CmpPaths : directory.files[p] # 0 /\ Suffix(p) \in image_extensions }

\* sorted(common_files)
InSet(S) == LET Test(p) == p \in S IN SelectSeq(SortedPaths, Test)

CommonFiles(a, b) == InSet(GetImageFiles(a) \cap GetImageFiles(b))

\* report_data before it is built, and as compare_directories builds it
NoReport ==
    [summary |-> [total_files_a |-> 0, total_files_b |-> 0, common_files |-> 0,
                  only_in_a |-> {}, only_in_b |-> {}],
     comparisons |-> <<>>]

ReportData(a, b, comparisons) ==
    LET files_a == GetImageFiles(a)
        files_b == GetImageFiles(b)
    IN  [summary |-> [total_files_a |-> Cardinality(files_a),
                      total_files_b |-> Cardinality(files_b),
                      common_files |-> Cardinality(files_a \cap files_b),
                      only_in_a |-> files_a \ files_b,
                      only_in_b |-> files_b \ files_a],
         comparisons |-> comparisons]

\* Whether the output function opens output_file: _output_csv returns
\* before that when there is nothing to write.
OpensOutputFile(format, file, comparisons) ==
    /\ file # None
    /\ format = "csv" => comparisons # <<>>

\* The comparator's state when another entry point is exercised.
CmpIdle ==
    /\ dirA = [exists |-> FALSE, files |-> [p \in CmpPaths |-> 0]]
    /\ dirB = [exists |-> FALSE, files |-> [p \in CmpPaths |-> 0]]
    /\ output_format = "table" /\ output_file = None
    /\ cmpPc = "start" /\ comparison_results = <<>> /\ report_data = NoReport
    /\ outWritten = FALSE /\ cmpRet = "pending"
    /\ cmpFilename = "a.jpg" /\ fileA = BrokenFile /\ fileB = BrokenFile
    /\ cmpResult = [filename |-> "", error |-> None]

\* Before compare_directories(dir_a, dir_b, output_format, output_file).
CompareStart ==
    /\ dirA \in CmpDirs /\ dirB \in CmpDirs
    /\ output_format \in {"table", "json", "csv"}
    /\ output_file \in {None, "writable", "unwritable"}
    /\ cmpPc = "start" /\ comparison_results = <<>> /\ report_data = NoReport
    /\ outWritten = FALSE /\ cmpRet = "pending"
    /\ cmpFilename = "a.jpg" /\ fileA = BrokenFile /\ fileB = BrokenFile
    /\ cmpResult = [filename |-> "", error |-> None]

\* Before _compare_images is called on one pair of files.
PairStart ==
    /\ dirA = [exists |-> FALSE, files |-> [p \in CmpPaths |-> 0]]
    /\ dirB = [exists |-> FALSE, files |-> [p \in CmpPaths |-> 0]]
    /\ output_format = "table" /\ output_file = None
    /\ cmpPc = "start" /\ comparison_results = <<>> /\ report_data = NoReport
    /\ outWritten = FALSE /\ cmpRet = "pending"
    /\ cmpFilename \in ImagePaths
    /\ fileA \in FilesOfPath(cmpFilename) /\ fileB \in FilesOfPath(cmpFilename)
    /\ cmpResult = [filename |-> "", error |-> None]

\* compare_directories up to the loop: the two existence checks.
CompareDirectoriesStart ==
    /\ mode = "compare" /\ cmpPc = "start"
    /\ IF dirA.exists /\ dirB.exists
       THEN cmpPc' = "loop" /\ cmpRet' = cmpRet
       ELSE cmpPc' = "done" /\ cmpRet' = None
    /\ UNCHANGED <<mode, callsVars, animVars, depth16Vars, toleranceVars, imageVars, gifVars, iccVars, avifVars, runnerVars, genVars, valVars, reportVars, mainVars, dirA, dirB, output_format,
                   output_file, comparison_results, report_data, outWritten,
                   cmpFilename, fileA, fileB, cmpResult>>

\* One iteration of `for filename in sorted(common_files)`.
ComparePair ==
    /\ mode = "compare" /\ cmpPc = "loop"
    /\ Len(comparison_results) < Len(CommonFiles(dirA, dirB))
    /\ LET filename == CommonFiles(dirA, dirB)[Len(comparison_results) + 1]
       IN  comparison_results' =
               Append(comparison_results,
                      compare_images(Content(filename, dirA.files[filename]),
                                     Content(filename, dirB.files[filename]),
                                     filename))
    /\ UNCHANGED <<mode, callsVars, animVars, depth16Vars, toleranceVars, imageVars, gifVars, iccVars, avifVars, runnerVars, genVars, valVars, reportVars, mainVars, dirA, dirB, output_format,
                   output_file, cmpPc, report_data, outWritten, cmpRet,
                   cmpFilename, fileA, fileB, cmpResult>>

\* The report is built and handed to _output_json, _output_csv or
\* _output_table; an output_file that cannot be opened makes open() raise.
CompareOutput ==
    /\ mode = "compare" /\ cmpPc = "loop"
    /\ Len(comparison_results) = Len(CommonFiles(dirA, dirB))
    /\ report_data' = ReportData(dirA, dirB, comparison_results)
    /\ cmpPc' = "done"
    /\ IF OpensOutputFile(output_format, output_file, comparison_results)
       THEN IF output_file = "writable"
            THEN outWritten' = TRUE /\ cmpRet' = None
            ELSE outWritten' = FALSE /\ cmpRet' = "raised"
       ELSE outWritten' = FALSE /\ cmpRet' = None
    /\ UNCHANGED <<mode, callsVars, animVars, depth16Vars, toleranceVars, imageVars, gifVars, iccVars, avifVars, runnerVars, genVars, valVars, reportVars, mainVars, dirA, dirB, output_format,
                   output_file, comparison_results, cmpFilename, fileA, fileB,
                   cmpResult>>

\* A call of _compare_images on one pair of files.
CompareImagesCall ==
    /\ mode = "pair" /\ cmpPc = "start"
    /\ cmpResult' = compare_images(fileA, fileB, cmpFilename)
    /\ cmpPc' = "done"
    /\ UNCHANGED <<mode, callsVars, animVars, depth16Vars, toleranceVars, imageVars, gifVars, iccVars, avifVars, runnerVars, genVars, valVars, reportVars, mainVars, dirA, dirB, output_format,
                   output_file, comparison_results, report_data, outWritten, cmpRet,
                   cmpFilename, fileA, fileB>>

-----------------------------------------------------------------------------
(* The PNG validator of variation_validator.py, validate_all_variations    *)
(* and save_validation_report.                                             *)

\* png_specs, in the order the dictionary is written and iterated
PngExpectations == <<
    T("colortype_grayscale.png", [color_mode |-> "L"]),
    T("colortype_palette.png", [color_mode |-> "P"]),
    T("colortype_rgb.png", [color_mode |-> "RGB"]),
    T("colortype_rgba.png", [color_mode |-> "RGBA"]),
    T("colortype_grayscale_alpha.png", [color_mode |-> "LA"]),
    T("depth_1bit.png", [bit_depth |-> 1]),
    T("depth_8bit.png", [bit_depth |-> 8]),
    T("depth_16bit.png", [bit_depth |-> 16]),
    T("compression_0.png", [compression_level |-> 0]),
    T("compression_6.png", [compression_level |-> 6]),
    T("compression_9.png", [compression_level |-> 9]),
    T("alpha_opaque.png", [has_transparency |-> FALSE]),
    T("alpha_semitransparent.png", [has_transparency |-> TRUE, alpha_variance |-> TRUE]),
    T("alpha_transparent.png", [has_transparency |-> TRUE]),
    T("interlace_none.png", [interlaced |-> FALSE]),
    T("interlace_adam7.png", [interlaced |-> TRUE]),
    T("metadata_none.png", [has_text_chunks |-> FALSE]),
    T("metadata_text.png", [has_text_chunks |-> TRUE]),
    T("metadata_compressed.png", [has_text_chunks |-> TRUE]),
    T("metadata_international.png", [has_text_chunks |-> TRUE]),
    T("filter_none.png", [filter_type |-> "none"]),
    T("filter_sub.png", [filter_type |-> "sub"]),
    T("filter_up.png", [filter_type |-> "up"]),
    T("filter_average.png", [filter_type |-> "average"]),
    T("filter_paeth.png", [filter_type |-> "paeth"]),
    T("chunk_gamma.png", [has_gamma_chunk |-> TRUE]),
    T("chunk_background.png", [has_background_chunk |-> TRUE]),
    T("chunk_transparency.png", [has_transparency_chunk |-> TRUE]) >>

\* What the validator reads from a PNG file: whether PIL opens it, img.mode,
\* the depth `identify` reports (0: None), 'transparency' and 'interlace'
\* being in img.info, whether the alpha channel varies, img.text being set.
PngFile(r, m, d, t, v, i, x) ==
    [readable |-> r, mode |-> m, depth |-> d, transparency |-> t,
     alpha_varies |-> v, interlace |-> i, text |-> x]

\* mode_depths.get(img.mode, 8)
ModeDepth(m) ==
    CASE m = "1" -> 1
      [] m \in {"I", "F"} -> 32
      [] OTHER -> 8

\* validate_png_file(file_path, filename, expected_specs), `file` being
\* what file_path holds.
validate_png_file(file, filename, expected_specs) ==
    LET r0 == NewResult(filename, "png", "variation")
    IN  IF ~file.readable
        THEN add_test(r0, "file_readable", FALSE)
        ELSE
        LET r1 == add_test(r0, "file_readable", TRUE)
            r2 == IF Has(expected_specs, "color_mode")
                  THEN add_test(r1, "color_mode", file.mode = expected_specs.color_mode)
                  ELSE r1
            actual_depth == IF file.depth # 0 THEN file.depth ELSE ModeDepth(file.mode)
            r3 == IF Has(expected_specs, "bit_depth")
                  THEN add_test(r2, "bit_depth", actual_depth = expected_specs.bit_depth)
                  ELSE r2
            has_alpha == file.mode \in {"RGBA", "LA"} \/ file.transparency
            r4 == IF Has(expected_specs, "has_transparency")
                  THEN LET a == add_test(r3, "has_transparency",
                                         has_alpha = expected_specs.has_transparency)
                       IN  IF /\ Has(expected_specs, "alpha_variance") /\ has_alpha
                              /\ file.mode \in {"RGBA", "LA"}
                           THEN add_test(a, "alpha_variance", file.alpha_varies)
                           ELSE a
                  ELSE r3
            r5 == IF Has(expected_specs, "interlaced")
                  THEN add_test(r4, "interlaced",
                                file.interlace = expected_specs.interlaced)
                  ELSE r4
        IN  IF Has(expected_specs, "has_text_chunks")
            THEN add_test(r5, "has_text_chunks",
                          file.text = expected_specs.has_text_chunks)
            ELSE r5

\* The PNG files of the model: an RGBA file with everything in it, a plain
\* RGB file, and a file PIL cannot open.
FullPng == PngFile(TRUE, "RGBA", 8, TRUE, TRUE, TRUE, TRUE)

PlainPng == PngFile(TRUE, "RGB", 8, FALSE, FALSE, FALSE, FALSE)

UnreadablePng == PngFile(FALSE, "RGB", 0, FALSE, FALSE, FALSE, FALSE)

PngFileOf(content) ==
    CASE content = "full" -> FullPng
      [] content = "plain" -> PlainPng
      [] content = "unreadable" -> UnreadablePng

\* The else branch of `if file_path.exists()` in validate_png_variations.
MissingPngResult(filename) ==
    add_test(NewResult(filename, "png", "missing"), "file_exists", FALSE)

\* validate_jpeg_variations(jpeg_dir) and validate_png_variations(png_dir):
\* the list returned for a directory d that holds d[filename] ("absent":
\* nothing) under each table filename.
JpegResultsOf(d) ==
    [k \in 1..Len(JpegExpectations) |->
        LET t == JpegExpectations[k]
        IN  IF d[t.filename] = "absent"
            THEN MissingResult(t.filename)
            ELSE validate_jpeg_file(FileOf(d[t.filename]), t.filename, t.specs)]

PngResultsOf(d) ==
    [k \in 1..Len(PngExpectations) |->
        LET t == PngExpectations[k]
        IN  IF d[t.filename] = "absent"
            THEN MissingPngResult(t.filename)
            ELSE validate_png_file(PngFileOf(d[t.filename]), t.filename, t.specs)]

\* sum(1 for r in results if r.passed)
RECURSIVE CountPassed(_)
CountPassed(rs) ==
    IF rs = <<>>
    THEN 0
    ELSE (IF Head(rs).passed THEN 1 ELSE 0) + CountPassed(Tail(rs))

\* A variant of CategorySummary that counts every result as failed.
CategorySummaryAllFailed(rs) ==
    [passed |-> CountPassed(rs), failed |-> Len(rs), total |-> Len(rs)]

\* results['summary'][category] = {'passed': .., 'failed': .., 'total': ..}
CategorySummary(rs) ==
    [passed |-> CountPassed(rs), failed |-> Len(rs) - CountPassed(rs),
     total |-> Len(rs)]

\* output_dir/jpeg or output_dir/png: whether the directory exists and what
\* it holds under each table filename.
NoDir(names) == [exists |-> FALSE, files |-> [n \in names |-> "absent"]]

DirOf(names, content) == [exists |-> TRUE, files |-> [n \in names |-> content]]

PngTableNames == { PngExpectations[k].filename : k \in 1..Len(PngExpectations) }

\* validate_all_variations(output_dir), jpeg_out and png_out being
\* output_dir/jpeg and output_dir/png.
validate_all_variations(jpeg_out, png_out) ==
    LET jpeg_results == IF jpeg_out.exists THEN JpegResultsOf(jpeg_out.files) ELSE <<>>
        png_results == IF png_out.exists THEN PngResultsOf(png_out.files) ELSE <<>>
        s1 == IF jpeg_out.exists
              THEN Put(EmptyDict, "jpeg", CategorySummary(jpeg_results))
              ELSE EmptyDict
        s2 == IF png_out.exists
              THEN Put(s1, "png", CategorySummary(png_results))
              ELSE s1
        total_tested == Len(jpeg_results) + Len(png_results)
        total_passed == CountPassed(jpeg_results \o png_results)
    IN  [total_tested |-> total_tested, total_passed |-> total_passed,
         total_failed |-> total_tested - total_passed,
         jpeg_results |-> jpeg_results, png_results |-> png_results,
         summary |-> s2]

\* a / b * 100 in whole percent: <<value>>, or <<>> for the
\* ZeroDivisionError a zero b raises.
Percent(a, b) == IF b = 0 THEN <<>> ELSE <<(a * 100) \div b>>

\* save_validation_report(results, output_file): how the call ends and what
\* it leaves in output_file ("none": not created, "partial": the lines
\* written before an exception, "full"). kind is "json" for a name ending
\* in .json and "text" otherwise.
save_validation_report(results_, kind, writable) ==
    IF kind = "json"
    THEN LET success_rate == IF results_.total_tested > 0
                             THEN Percent(results_.total_passed, results_.total_tested)
                             ELSE <<0>>
         IN  IF success_rate = <<>> \/ ~writable
             THEN [ret |-> "raised", content |-> "none"]
             ELSE [ret |-> None, content |-> "full"]
    ELSE IF ~writable
    THEN [ret |-> "raised", content |-> "none"]
    ELSE IF Percent(results_.total_passed, results_.total_tested) = <<>>
    THEN [ret |-> "raised", content |-> "partial"]
    ELSE [ret |-> None, content |-> "full"]

\* results as validate_all_variations first builds it
EmptyResults ==
    [total_tested |-> 0, total_passed |-> 0, total_failed |-> 0,
     jpeg_results |-> <<>>, png_results |-> <<>>, summary |-> EmptyDict]

\* The report functions' state when another entry point is exercised.
ReportIdle ==
    /\ jpegOut = NoDir(TableNames) /\ pngOut = NoDir(PngTableNames)
    /\ valResults = EmptyResults
    /\ reportKind = "json" /\ reportWritable = TRUE
    /\ reportPc = "start" /\ reportRet = "pending" /\ reportContent = "none"

\* Before validate_all_variations(output_dir) and
\* save_validation_report(results, output_file) are called.
ReportStart ==
    /\ jpegOut \in {NoDir(TableNames)}
                   \cup { DirOf(TableNames, c) : c \in {"plain", "rich", "absent"} }
    /\ pngOut \in {NoDir(PngTableNames)}
                  \cup { DirOf(PngTableNames, c) : c \in {"full", "plain", "absent"} }
    /\ valResults = EmptyResults
    /\ reportKind \in {"json", "text"} /\ reportWritable \in BOOLEAN
    /\ reportPc = "start" /\ reportRet = "pending" /\ reportContent = "none"

\* A call of validate_all_variations.
ValidateAllVariations ==
    /\ mode = "report" /\ reportPc = "start"
    /\ valResults' = validate_all_variations(jpegOut, pngOut)
    /\ reportPc' = "validated"
    /\ UNCHANGED <<mode, callsVars, animVars, depth16Vars, toleranceVars, imageVars, gifVars, iccVars, avifVars, runnerVars, genVars, valVars, cmpVars, mainVars, jpegOut,
                   pngOut, reportKind, reportWritable, reportRet, reportContent>>

\* A call of save_validation_report on what validate_all_variations returned.
SaveValidationReport ==
    /\ mode = "report" /\ reportPc = "validated"
    /\ LET o == save_validation_report(valResults, reportKind, reportWritable)
       IN  reportRet' = o.ret /\ reportContent' = o.content
    /\ reportPc' = "done"
    /\ UNCHANGED <<mode, callsVars, animVars, depth16Vars, toleranceVars, imageVars, gifVars, iccVars, avifVars, runnerVars, genVars, valVars, cmpVars, mainVars, jpegOut,
                   pngOut, valResults, reportKind, reportWritable>>

-----------------------------------------------------------------------------
(* toolkit.main: the dispatch on args.command. The operations it calls are *)
(* the environment here: each ends in one of the ways its code allows.     *)

Commands ==
    {"generate-original", "generate-variations", "compare-directories",
     "validate-variations"}

\* The namespaces parser.parse_args() can return: args.command, None when
\* no subcommand was given, and the options of that subcommand. A directory
\* option is its default or another directory.
Namespaces ==
    { [command |-> None] }
    \cup [command : {"generate-original"}, output_dir : {"output", "other"},
          test_compliance : BOOLEAN]
    \cup [command : {"generate-variations"}, source_dir : {"output", "other"},
          output_dir : {"output"}, test_compliance : BOOLEAN]
    \cup [command : {"compare-directories"}, dir_a : {"dir_a"}, dir_b : {"dir_b"},
          output_format : {"table", "json", "csv"},
          output_file : {None, "report.out"}]
    \cup [command : {"validate-variations"}, output_dir : {"output", "other"},
          report_file : {None, "report.json"}]

\* How the operation of a command can end: the value it returns, or an
\* exception ("raised").
OperationOutcomes(cmd) ==
    CASE cmd \in {"generate-original", "generate-variations"} -> {"True", "False", "raised"}
      [] cmd = "compare-directories" -> {None, "raised"}
      [] cmd = "validate-variations" -> {"results", "raised"}
      [] OTHER -> {None}

\* The call main makes first for a namespace: the operation and the
\* arguments it gets.
FirstOperation(a) ==
    CASE a.command = "generate-original" ->
           <<"generate_original_images", a.output_dir>>
      [] a.command = "generate-variations" ->
           <<"generate_variations", a.source_dir, a.output_dir>>
      [] a.command = "compare-directories" ->
           <<"compare_directories", a.dir_a, a.dir_b, a.output_format, a.output_file>>
      [] a.command = "validate-variations" ->
           <<"validate_all_variations", a.output_dir>>

\* A main that runs the compliance step whatever the generator returned.
SecondOperationAnyway(a, outcome) ==
    CASE a.command = "generate-original" /\ a.test_compliance ->
           <<"test_original_compliance", a.output_dir>>
      [] a.command = "generate-variations" /\ a.test_compliance ->
           <<"test_variation_compliance", a.output_dir>>
      [] a.command = "validate-variations" /\ a.report_file # None ->
           <<"save_validation_report", outcome, a.report_file>>
      [] OTHER -> <<>>

\* The call main makes after the first one, <<>> if none:
\* `if success and args.test_compliance` and `if args.report_file`.
SecondOperation(a, outcome) ==
    CASE a.command = "generate-original" /\ outcome = "True" /\ a.test_compliance ->
           <<"test_original_compliance", a.output_dir>>
      [] a.command = "generate-variations" /\ outcome = "True" /\ a.test_compliance ->
           <<"test_variation_compliance", a.output_dir>>
      [] a.command = "validate-variations" /\ a.report_file # None ->
           <<"save_validation_report", outcome, a.report_file>>
      [] OTHER -> <<>>

\* A main whose except clause returns 0 as well.
ReturnCodeAlwaysZero(outcome) == 0

\* return 0 at the end of the try block, return 1 in `except Exception`.
ReturnCode(outcome) == IF outcome = "raised" THEN 1 ELSE 0

\* main's state when another entry point is exercised.
MainIdle ==
    /\ args = [command |-> None]
    /\ opOutcome = None /\ op2Outcome = None
    /\ mainPc = "parse" /\ mainCalls = <<>> /\ exitCode = -1

\* After parser.parse_args().
MainStart ==
    /\ args \in Namespaces
    /\ opOutcome \in OperationOutcomes(args.command)
    /\ op2Outcome \in {None, "raised"}
    /\ mainPc = "parse" /\ mainCalls = <<>> /\ exitCode = -1

\* if not args.command: parser.print_help(); return 1
MainNoCommand ==
    /\ mode = "main" /\ mainPc = "parse" /\ args.command = None
    /\ mainPc' = "done" /\ exitCode' = 1
    /\ UNCHANGED <<mode, callsVars, animVars, depth16Vars, toleranceVars, imageVars, gifVars, iccVars, avifVars, runnerVars, genVars, valVars, cmpVars, reportVars, args,
                   opOutcome, op2Outcome, mainCalls>>

\* The first operation of the selected subcommand.
MainOperation ==
    /\ mode = "main" /\ mainPc = "parse" /\ args.command # None
    /\ mainCalls' = Append(mainCalls, FirstOperation(args))
    /\ IF opOutcome = "raised"
       THEN mainPc' = "done" /\ exitCode' = ReturnCode(opOutcome)
       ELSE IF SecondOperation(args, opOutcome) # <<>>
       THEN mainPc' = "second" /\ exitCode' = exitCode
       ELSE mainPc' = "done" /\ exitCode' = ReturnCode(opOutcome)
    /\ UNCHANGED <<mode, callsVars, animVars, depth16Vars, toleranceVars, imageVars, gifVars, iccVars, avifVars, runnerVars, genVars, valVars, cmpVars, reportVars, args,
                   opOutcome, op2Outcome>>

\* The compliance test or the report, then the end of the try block.
MainSecondOperation ==
    /\ mode = "main" /\ mainPc = "second"
    /\ mainCalls' = Append(mainCalls, SecondOperation(args, opOutcome))
    /\ mainPc' = "done" /\ exitCode' = ReturnCode(op2Outcome)
    /\ UNCHANGED <<mode, callsVars, animVars, depth16Vars, toleranceVars, imageVars, gifVars, iccVars, avifVars, runnerVars, genVars, valVars, cmpVars, reportVars, args,
                   opOutcome, op2Outcome>>

-----------------------------------------------------------------------------
(* The AVIF generator: AvifGenerator.generate_variations (generators/      *)
(* avif.py). Paths are relative to output_dir.                             *)

\* lossy_dir, lossless_dir, animation_dir and the source each converts
AvifDirs == <<"avif/lossy", "avif/lossless", "avif/animation">>

AvifSource(k) ==
    CASE k = 1 -> "test_original.jpg"
      [] k = 2 -> "test_original.png"
      [] k = 3 -> "test_original.gif"

\* The host the generator runs on: IMAGEMAGICK_AVIF_AVAILABLE as the import
\* of the module set it, PYTEST_CURRENT_TEST being in os.environ, what the
\* test conversion of _test_avif_support does ("ok": exit 0 and the file is
\* there), and the filesystem call that raises, if any.
AvifHosts ==
    [available : BOOLEAN, pytest : BOOLEAN, probe : {"ok", "fails", "raises"},
     fs : {"ok", "mkdir", "placeholder"}]

\* AVIF_AVAILABLE
AVIF_AVAILABLE(h) == h.available

\* _test_avif_support()
test_avif_support(h) ==
    IF ~h.available THEN FALSE
    ELSE IF h.pytest THEN TRUE
    ELSE h.probe = "ok"

\* A variant that trusts IMAGEMAGICK_AVIF_AVAILABLE alone.
AvifSupportedUntested(h) == h.available

\* not (not AVIF_AVAILABLE or not _test_avif_support())
AvifSupported(h) == AVIF_AVAILABLE(h) /\ test_avif_support(h)

\* The file _create_placeholder_files writes into a directory.
Placeholder(dir) == dir \o "/original.txt"

\* The file a conversion writes into a directory, and its index entry.
AvifOutput(dir) == dir \o "/original.avif"

AvifEntry(dir) == [format |-> "avif", path |-> AvifOutput(dir)]

\* The generator's state when another entry point is exercised.
AvifGenIdle ==
    /\ avifHost = [available |-> FALSE, pytest |-> FALSE, probe |-> "fails", fs |-> "ok"]
    /\ avifSources = {} /\ avifPc = "start" /\ avifIndex = <<>>
    /\ avifRet = Pending /\ avifFiles = {} /\ avifRuns = <<>>

\* Before AvifGenerator.generate_variations(source_dir, output_dir).
AvifGenStart ==
    /\ avifHost \in AvifHosts
    /\ avifSources \in SUBSET Originals
    /\ avifPc = "start" /\ avifIndex = <<>>
    /\ avifRet = Pending /\ avifFiles = {} /\ avifRuns = <<>>

\* The three mkdir calls and the support test.
AvifGenerateStart ==
    /\ mode = "avifgen" /\ avifPc = "start"
    /\ IF avifHost.fs = "mkdir"
       THEN avifPc' = "done" /\ avifRet' = ReturnedNone
       ELSE /\ avifRet' = avifRet
            /\ avifPc' = IF AvifSupported(avifHost) THEN "convert" ELSE "placeholders"
    /\ UNCHANGED <<mode, callsVars, animVars, depth16Vars, toleranceVars, imageVars, gifVars, iccVars, otherVars, runnerVars, genVars, valVars, avifHost,
                   avifSources, avifIndex, avifFiles, avifRuns>>

\* _create_placeholder_files and `return variations_index`; an open() that
\* raises is caught by the generator's except clause.
AvifPlaceholders ==
    /\ mode = "avifgen" /\ avifPc = "placeholders"
    /\ IF avifHost.fs = "placeholder"
       THEN avifFiles' = avifFiles /\ avifRet' = ReturnedNone
       ELSE /\ avifFiles' = avifFiles \cup { Placeholder(AvifDirs[k]) : k \in 1..3 }
            /\ avifRet' = ReturnedList(avifIndex)
    /\ avifPc' = "done"
    /\ UNCHANGED <<mode, callsVars, animVars, depth16Vars, toleranceVars, imageVars, gifVars, iccVars, otherVars, runnerVars, genVars, valVars, avifHost,
                   avifSources, avifIndex, avifRuns>>

\* _generate_lossy_avif, _generate_lossless_avif and _generate_animation_avif
\* with its fallback, one per step, for the sources that exist: the
\* conversion writes the file and the entry is appended, or it fails or
\* raises and nothing is appended.
AvifConvert ==
    /\ mode = "avifgen" /\ avifPc = "convert" /\ Len(avifRuns) < 3
    /\ LET k == Len(avifRuns) + 1
       IN  IF AvifSource(k) \in avifSources
           THEN \E o \in {"ok", "fails", "raises"} :
                  /\ avifRuns' = Append(avifRuns, AvifSource(k))
                  /\ IF o = "ok"
                     THEN /\ avifFiles' = avifFiles \cup {AvifOutput(AvifDirs[k])}
                          /\ avifIndex' = Append(avifIndex, AvifEntry(AvifDirs[k]))
                     ELSE UNCHANGED <<avifFiles, avifIndex>>
           ELSE /\ avifRuns' = Append(avifRuns, "")
                /\ UNCHANGED <<avifFiles, avifIndex>>
    /\ UNCHANGED <<mode, callsVars, animVars, depth16Vars, toleranceVars, imageVars, gifVars, iccVars, otherVars, runnerVars, genVars, valVars, avifHost,
                   avifSources, avifPc, avifRet>>

\* return variations_index after the conversions
AvifReturn ==
    /\ mode = "avifgen" /\ avifPc = "convert" /\ Len(avifRuns) = 3
    /\ avifRet' = ReturnedList(avifIndex) /\ avifPc' = "done"
    /\ UNCHANGED <<mode, callsVars, animVars, depth16Vars, toleranceVars, imageVars, gifVars, iccVars, otherVars, runnerVars, genVars, valVars, avifHost,
                   avifSources, avifIndex, avifFiles, avifRuns>>

-----------------------------------------------------------------------------
(* JpegGenerator._convert_icc, command by command (generators/jpeg.py).    *)

\* The profile paths _convert_icc goes through for an icc parameter.
IccPaths(icc) ==
    CASE icc = "srgb"     -> SrgbPaths
      [] icc = "adobergb" -> AdobePaths
      [] OTHER            -> <<>>

\* The commands _convert_icc builds: with a candidate profile file, with the
\* built-in profile name, the plain colorspace conversion, and the single
\* command of the other icc parameters.
IccCommand(kind, arg) == [kind |-> kind, arg |-> arg]

BuiltinProfile(icc) == IF icc = "srgb" THEN "sRGB" ELSE "AdobeRGB"

PlainColorspace(icc) == IF icc = "srgb" THEN "sRGB" ELSE "RGB"

\* A variant of the candidate loop without its break.
AfterCandidateNoBreak(r) ==
    IF r = "raised" THEN "raised" ELSE "loop"

\* Where the candidate loop goes after run_command(cmd): `success = True;
\* break` skips the fallbacks, False goes on to the next path, an exception
\* leaves _convert_icc.
AfterCandidate(r) ==
    CASE r = "True"   -> "done"
      [] r = "raised" -> "raised"
      [] OTHER        -> "loop"

\* The conversion's state when another entry point is exercised.
IccIdle ==
    /\ iccHost = [b \in Binaries |-> "missing"] /\ iccParam = "none"
    /\ iccExists = {} /\ iccCache = None /\ iccPc = "start"
    /\ iccNext = 1 /\ iccLog = <<>>

\* Before JpegGenerator._convert_icc(source, output_dir, icc).
IccStart ==
    /\ iccHost \in GenHosts
    /\ iccParam \in {"none", "srgb", "adobergb"}
    /\ iccExists \in SUBSET { IccPaths(iccParam)[k] : k \in 1..Len(IccPaths(iccParam)) }
    /\ iccCache \in {None} \cup { b \in Binaries : iccHost[b] = "ok" }
    /\ iccPc = "start" /\ iccNext = 1 /\ iccLog = <<>>

\* One run_command(cmd) of the conversion, recorded with its result.
IccRun(cmd, r) ==
    /\ iccLog' = Append(iccLog, [cmd |-> cmd, ret |-> r.ret])
    /\ iccCache' = r.cache

\* icc == "none" and the default branch: one command, its result ignored.
IccSingle ==
    /\ mode = "icc" /\ iccPc = "start" /\ iccParam = "none"
    /\ \E r \in RunnerResults(iccCache, iccHost) :
         /\ IccRun(IccCommand("single", "+profile icc"), r)
         /\ iccPc' = IF r.ret = "raised" THEN "raised" ELSE "done"
    /\ UNCHANGED <<mode, callsVars, animVars, depth16Vars, toleranceVars, imageVars, gifVars, avifVars, otherVars, runnerVars, genVars, valVars,
                   iccHost, iccParam, iccExists, iccNext>>

\* success = False; for profile_path in srgb_paths
IccEnterLoop ==
    /\ mode = "icc" /\ iccPc = "start" /\ iccParam # "none"
    /\ iccPc' = "loop"
    /\ UNCHANGED <<mode, callsVars, animVars, depth16Vars, toleranceVars, imageVars, gifVars, avifVars, otherVars, runnerVars, genVars, valVars,
                   iccHost, iccParam, iccExists, iccCache, iccNext, iccLog>>

\* One iteration of the loop over the candidate paths.
IccCandidate ==
    /\ mode = "icc" /\ iccPc = "loop" /\ iccNext <= Len(IccPaths(iccParam))
    /\ LET profile_path == IccPaths(iccParam)[iccNext]
       IN  IF profile_path \in iccExists
           THEN \E r \in RunnerResults(iccCache, iccHost) :
                  /\ IccRun(IccCommand("candidate", profile_path), r)
                  /\ iccPc' = AfterCandidate(r.ret)
                  /\ iccNext' = iccNext + 1
           ELSE /\ iccNext' = iccNext + 1
                /\ UNCHANGED <<iccPc, iccLog, iccCache>>
    /\ UNCHANGED <<mode, callsVars, animVars, depth16Vars, toleranceVars, imageVars, gifVars, avifVars, otherVars, runnerVars, genVars, valVars,
                   iccHost, iccParam, iccExists>>

\* if not success: the command with the built-in profile name
IccBuiltin ==
    /\ mode = "icc" /\ iccPc = "loop" /\ iccNext > Len(IccPaths(iccParam))
    /\ \E r \in RunnerResults(iccCache, iccHost) :
         /\ IccRun(IccCommand("builtin", BuiltinProfile(iccParam)), r)
         /\ iccPc' = CASE r.ret = "True"   -> "done"
                       [] r.ret = "raised" -> "raised"
                       [] OTHER            -> "plain"
    /\ UNCHANGED <<mode, callsVars, animVars, depth16Vars, toleranceVars, imageVars, gifVars, avifVars, otherVars, runnerVars, genVars, valVars,
                   iccHost, iccParam, iccExists, iccNext>>

\* if not run_command(cmd): the plain colorspace conversion, result ignored
IccPlain ==
    /\ mode = "icc" /\ iccPc = "plain"
    /\ \E r \in RunnerResults(iccCache, iccHost) :
         /\ IccRun(IccCommand("plain", PlainColorspace(iccParam)), r)
         /\ iccPc' = IF r.ret = "raised" THEN "raised" ELSE "done"
    /\ UNCHANGED <<mode, callsVars, animVars, depth16Vars, toleranceVars, imageVars, gifVars, avifVars, otherVars, runnerVars, genVars, valVars,
                   iccHost, iccParam, iccExists, iccNext>>

-----------------------------------------------------------------------------
(* The frames of the GIF variations: create_gif_test_animation and         *)
(* save_gif_with_options (image_generator.py) as GifGenerator calls them   *)
(* (generators/gif.py), and the table GifValidator checks them against     *)
(* (validators/gif.py).                                                    *)

\* Largest frame count a direct call is made with.
MaxFrameCount == 20

\* The value column of gif_specs in GifGenerator.generate_variations.
GifValue(param) ==
    CASE param = "single"        -> 1
      [] param = "short"         -> 5
      [] param = "medium"        -> 10
      [] param = "long"          -> 20
      [] param = "slow"          -> 200
      [] param = "normal"        -> 100
      [] param = "fast"          -> 40
      [] param = "2colors"       -> 2
      [] param = "16colors"      -> 16
      [] param = "256colors"     -> 256
      [] param = "nodither"      -> FALSE
      [] param = "dithered"      -> TRUE
      [] param = "noopt"         -> FALSE
      [] param = "optimized"     -> TRUE
      [] param = "loop_infinite" -> 0
      [] param = "loop_once"     -> 1
      [] param = "loop_3times"   -> 3

\* The arguments of one create_gif_test_animation / save_gif_with_options pair.
GifArgs(fc, d, l, o, p, di) ==
    [width |-> 200, height |-> 200, frame_count |-> fc, duration |-> d,
     loop |-> l, optimize |-> o, palette_size |-> p, dither |-> di]

\* The calls GifGenerator.generate_variations makes for a row of gif_specs.
GifCall(r) ==
    LET value == GifValue(r.param)
    IN  CASE r.category = "frames"   -> GifArgs(value, 100, 0, FALSE, 256, TRUE)
          [] r.category = "fps"      -> GifArgs(10, value, 0, FALSE, 256, TRUE)
          [] r.category = "palette"  -> GifArgs(10, 100, 0, FALSE, value, TRUE)
          [] r.category = "dither"   -> GifArgs(10, 100, 0, FALSE, 64, value)
          [] r.category = "optimize" -> GifArgs(10, 100, 0, value, 256, TRUE)
          [] r.category = "loop"     -> GifArgs(10, 100, value, FALSE, 256, TRUE)

\* A variant of create_gif_test_animation whose loop starts at frame 1.
create_gif_test_animation_from_one(width, height, frame_count) ==
    [k \in 1..(IF frame_count > 0 THEN frame_count - 1 ELSE 0) |->
        [mode |-> "RGBA", size |-> <<width, height>>, frame_idx |-> k]]

\* create_gif_test_animation(width, height, frame_count): one RGBA image per
\* frame_idx in range(frame_count), drawn from its frame_idx.
create_gif_test_animation(width, height, frame_count) ==
    [k \in 1..frame_count |->
        [mode |-> "RGBA", size |-> <<width, height>>, frame_idx |-> k - 1]]

\* No call to the GIF writer.
NotSaved == [frames |-> <<>>, duration |-> -1, loop |-> -1, optimize |-> FALSE]

\* save_gif_with_options: ValueError on no frames (<<>>); otherwise the frames
\* are made RGBA, quantized to palette images when palette_size < 256, and
\* save_frames[0].save(..., append_images=save_frames[1:]) hands them to the
\* writer with the options.
save_gif_with_options(frames, duration, loop, optimize, palette_size, dither) ==
    IF frames = <<>>
    THEN <<>>
    ELSE LET rgba_frames == [k \in 1..Len(frames) |-> [frames[k] EXCEPT !.mode = "RGBA"]]
             save_frames ==
                 IF palette_size < 256
                 THEN [k \in 1..Len(rgba_frames) |-> [rgba_frames[k] EXCEPT !.mode = "P"]]
                 ELSE rgba_frames
             append_images == Tail(save_frames)
         IN  << [frames |-> <<save_frames[1]>> \o append_images, duration |-> duration,
                 loop |-> loop, optimize |-> optimize] >>

\* gif_specs of GifValidator.validate_variations
GifExpectations == <<
    T("frames_single.gif", [frame_count |-> 1, is_animated |-> FALSE]),
    T("frames_short.gif", [frame_count |-> 5, is_animated |-> TRUE]),
    T("frames_medium.gif", [frame_count |-> 10, is_animated |-> TRUE]),
    T("frames_long.gif", [frame_count |-> 20, is_animated |-> TRUE]),
    T("fps_slow.gif", [frame_duration |-> 200, is_animated |-> TRUE]),
    T("fps_normal.gif", [frame_duration |-> 100, is_animated |-> TRUE]),
    T("fps_fast.gif", [frame_duration |-> 40, is_animated |-> TRUE]),
    T("palette_2colors.gif", [palette_size_range |-> <<1, 4>>, is_animated |-> TRUE]),
    T("palette_16colors.gif", [palette_size_range |-> <<8, 32>>, is_animated |-> TRUE]),
    T("palette_256colors.gif", [palette_size_range |-> <<64, 256>>, is_animated |-> TRUE]),
    T("dither_nodither.gif", [has_dithering |-> FALSE, is_animated |-> TRUE]),
    T("dither_dithered.gif", [has_dithering |-> TRUE, is_animated |-> TRUE]),
    T("optimize_noopt.gif", [is_optimized |-> FALSE, is_animated |-> TRUE]),
    T("optimize_optimized.gif", [is_optimized |-> TRUE, is_animated |-> TRUE]),
    T("loop_loop_infinite.gif", [loop_count |-> 0, is_animated |-> TRUE]),
    T("loop_loop_once.gif", [loop_count |-> 1, is_animated |-> TRUE]),
    T("loop_loop_3times.gif", [loop_count |-> 3, is_animated |-> TRUE]) >>

\* The GIF functions' state when another entry point is exercised.
GifIdle ==
    /\ gifRow = 0 /\ gifArgs = GifArgs(0, 100, 0, FALSE, 256, TRUE)
    /\ gifPc = "start" /\ gifFrames = <<>> /\ gifSaved = NotSaved

\* Before a create_gif_test_animation / save_gif_with_options pair: the one
\* GifGenerator makes for row gifRow of gif_specs, or (row 0) a direct one.
GifStart ==
    /\ gifRow \in 0..Len(GifSpecs)
    /\ IF gifRow = 0
       THEN gifArgs \in { GifArgs(fc, d, l, o, p, di) :
                          fc \in 0..MaxFrameCount, d \in {40, 100, 200}, l \in {0, 1, 3},
                          o \in BOOLEAN, p \in {2, 16, 64, 256}, di \in BOOLEAN }
       ELSE gifArgs = GifCall(GifSpecs[gifRow])
    /\ gifPc = "start" /\ gifFrames = <<>> /\ gifSaved = NotSaved

\* frames = create_gif_test_animation(width=200, height=200, frame_count=...)
CreateGifTestAnimation ==
    /\ mode = "gif" /\ gifPc = "start"
    /\ gifFrames' = create_gif_test_animation(gifArgs.width, gifArgs.height,
                                              gifArgs.frame_count)
    /\ gifPc' = "built"
    /\ UNCHANGED <<mode, callsVars, animVars, depth16Vars, toleranceVars, imageVars, iccVars, avifVars, otherVars, runnerVars, genVars, valVars,
                   gifRow, gifArgs, gifSaved>>

\* save_gif_with_options(frames, output_path, duration=..., ...); the writer
\* itself may raise (the file cannot be written).
SaveGifWithOptions ==
    /\ mode = "gif" /\ gifPc = "built"
    /\ LET s == save_gif_with_options(gifFrames, gifArgs.duration, gifArgs.loop,
                    gifArgs.optimize, gifArgs.palette_size, gifArgs.dither)
       IN  IF s = <<>>
           THEN gifPc' = "raised" /\ gifSaved' = gifSaved
           ELSE \E written \in BOOLEAN :
                  /\ gifSaved' = s[1]
                  /\ gifPc' = IF written THEN "saved" ELSE "raised"
    /\ UNCHANGED <<mode, callsVars, animVars, depth16Vars, toleranceVars, imageVars, iccVars, avifVars, otherVars, runnerVars, genVars, valVars,
                   gifRow, gifArgs, gifFrames>>

-----------------------------------------------------------------------------
(* create_jpeg_test_image (image_generator.py): the image size and the     *)
(* random ranges it draws from.                                            *)

\* Largest width and height a call is made with.
MaxWidth == 102
MaxHeight == 5

\* np.random.randint(low, high): the values it can return; none, a
\* ValueError, when low >= high.
Randint(low, high) == low..(high - 1)

Max(a, b) == IF a >= b THEN a ELSE b

Min(a, b) == IF a <= b THEN a ELSE b

\* cloud_radius = max(50, min(width, height) // 8); cloud_margin = cloud_radius
cloud_margin(width, height) == Max(50, Min(width, height) \div 8)

\* No position drawn, no image returned.
NoDraw == <<-1, -1>>

\* The function's state when another entry point is exercised.
ImageIdle ==
    /\ imgWidth = 1 /\ imgHeight = 1 /\ imgPc = "start"
    /\ imgDraw = NoDraw /\ imgSize = NoDraw

\* Before create_jpeg_test_image(width, height), width and height positive.
ImageStart ==
    /\ imgWidth \in 1..MaxWidth /\ imgHeight \in 1..MaxHeight
    /\ imgPc = "start" /\ imgDraw = NoDraw /\ imgSize = NoDraw

\* img = np.zeros((height, width, 3)), the sky and the grass, then the flower
\* loop (at least 200 rounds): x = randint(0, width),
\* y = randint(height//2, height); imgDraw is the last flower drawn.
ImageFlowers ==
    /\ mode = "image" /\ imgPc = "start"
    /\ LET xs == Randint(0, imgWidth)
           ys == Randint(imgHeight \div 2, imgHeight)
       IN  IF xs = {} \/ ys = {}
           THEN imgPc' = "raised" /\ imgDraw' = imgDraw
           ELSE /\ imgPc' = "clouds"
                /\ \E x \in xs, y \in ys : imgDraw' = <<x, y>>
    /\ UNCHANGED <<mode, callsVars, animVars, depth16Vars, toleranceVars, gifVars, iccVars, avifVars, otherVars, runnerVars, genVars,
                   valVars, imgWidth, imgHeight, imgSize>>

\* The cloud loop (5 rounds): cx = randint(cloud_margin, width - cloud_margin),
\* cy = randint(0, height//4); imgDraw is the last centre drawn. Then the
\* person, and Image.fromarray(img).
ImageClouds ==
    /\ mode = "image" /\ imgPc = "clouds"
    /\ LET m == cloud_margin(imgWidth, imgHeight)
           cxs == Randint(m, imgWidth - m)
           cys == Randint(0, imgHeight \div 4)
       IN  IF cxs = {} \/ cys = {}
           THEN imgPc' = "raised" /\ UNCHANGED <<imgDraw, imgSize>>
           ELSE /\ imgPc' = "done"
                /\ \E cx \in cxs, cy \in cys : imgDraw' = <<cx, cy>>
                /\ imgSize' = <<imgWidth, imgHeight>>
    /\ UNCHANGED <<mode, callsVars, animVars, depth16Vars, toleranceVars, gifVars, iccVars, avifVars, otherVars, runnerVars, genVars,
                   valVars, imgWidth, imgHeight>>

-----------------------------------------------------------------------------
(* The numeric tests of the validators: the GIF frame duration             *)
(* (validators/gif.py) and the JFIF and EXIF DPI (validators/jpeg.py),     *)
(* applied to values around what the tables expect.                        *)

\* How far from the expected value the measured values go.
MaxDeviation == 22

Abs(x) == IF x < 0 THEN -x ELSE x

\* GifValidator._validate_file, the frame duration test: duration is
\* <<img.info['duration']>>, or <<>> when img.info has no 'duration'.
GifDurationTest(res, duration, expected_specs) ==
    IF Has(expected_specs, "frame_duration") /\ duration # <<>>
    THEN add_test(res, "frame_duration",
                  Abs(duration[1] - expected_specs.frame_duration) <= 20)
    ELSE IF Has(expected_specs, "frame_duration")
    THEN add_test(res, "frame_duration", FALSE)
    ELSE res

\* The rows of the validators' tables that carry a numeric expectation.
ToleranceRows ==
    { [kind |-> "gif", row |-> GifExpectations[k]] :
        k \in { j \in 1..Len(GifExpectations) :
                  Has(GifExpectations[j].specs, "frame_duration") } }
    \cup
    { [kind |-> IF JpegExpectations[k].specs.dpi_type \in JfifTypes
                THEN "jfif" ELSE "exif",
       row |-> JpegExpectations[k]] :
        k \in { j \in 1..Len(JpegExpectations) :
                  Has(JpegExpectations[j].specs, "expected_dpi") } }

\* What a row expects.
ExpectedValue(t) ==
    IF t.kind = "gif" THEN t.row.specs.frame_duration ELSE t.row.specs.expected_dpi

\* What the file can carry for a row: <<>> (no duration, no dpi, no
\* XResolution tag), <<value>>, or for EXIF <<numerator, denominator>>.
MeasuredValues(t) ==
    LET e == ExpectedValue(t)
    IN  {<<>>} \cup
        CASE t.kind = "gif"  -> { <<a>> : a \in (e - MaxDeviation)..(e + MaxDeviation) }
          [] t.kind = "jfif" -> { <<a>> : a \in (e - 3)..(e + 3) }
          [] t.kind = "exif" -> { <<n, d>> : n \in 0..(2 * e + 4), d \in 0..2 }

\* The part of an opened JPEG file the DPI tests read.
DpiFile(kind, measured) ==
    [dpi |-> IF kind = "jfif" /\ measured # <<>> THEN measured[1] ELSE 0,
     exif |-> [xres |-> IF kind = "exif" THEN measured ELSE <<>>]]

\* The state of the tests when another entry point is exercised.
ToleranceIdle ==
    /\ tolRow = [kind |-> "gif", row |-> GifExpectations[5]]
    /\ tolMeasured = <<>> /\ tolPc = "start"
    /\ tolResult = NewResult("", "gif", "variation")

\* Before the numeric test of a row is applied to a file.
ToleranceStart ==
    /\ tolRow \in ToleranceRows
    /\ tolMeasured \in MeasuredValues(tolRow)
    /\ tolPc = "start"
    /\ tolResult = NewResult(tolRow.row.filename,
                             IF tolRow.kind = "gif" THEN "gif" ELSE "jpeg", "variation")

\* The frame duration test of GifValidator._validate_file.
GifDurationStep ==
    /\ mode = "tolerance" /\ tolPc = "start" /\ tolRow.kind = "gif"
    /\ tolResult' = GifDurationTest(tolResult, tolMeasured, tolRow.row.specs)
    /\ tolPc' = "done"
    /\ UNCHANGED <<mode, callsVars, animVars, depth16Vars, imageVars, gifVars, iccVars, avifVars, otherVars, runnerVars,
                   genVars, valVars, tolRow, tolMeasured>>

\* The DPI tests of JpegValidator._validate_file.
DpiStep ==
    /\ mode = "tolerance" /\ tolPc = "start" /\ tolRow.kind # "gif"
    /\ tolResult' = DpiTests(tolResult, DpiFile(tolRow.kind, tolMeasured), tolRow.row.specs)
    /\ tolPc' = "done"
    /\ UNCHANGED <<mode, callsVars, animVars, depth16Vars, imageVars, gifVars, iccVars, avifVars, otherVars, runnerVars,
                   genVars, valVars, tolRow, tolMeasured>>

-----------------------------------------------------------------------------
(* _create_16bit_png_opencv (generators/png.py and variation_generator.py, *)
(* the same code): one sample of a uint8 image.                            *)

\* np.clip(x, lo, hi)
Clip(x, lo, hi) == IF x < lo THEN lo ELSE IF x > hi THEN hi ELSE x

\* img.astype(np.uint16) * 257, then
\* np.clip(img_16bit.astype(np.int32) + noise, 0, 65535).astype(np.uint16)
Sample16(v, n) == Clip(((v * 257) % 65536) + n, 0, 65535)

\* The conversion's state when another entry point is exercised.
Depth16Idle == sample8 = 0 /\ noise16 = 0 /\ sample16 = NoneNumber

\* Before the conversion: a uint8 sample and the noise
\* np.random.randint(-128, 129) draws for it.
Depth16Start == sample8 \in 0..255 /\ noise16 \in -128..128 /\ sample16 = NoneNumber

\* The conversion of the sample.
Create16BitSample ==
    /\ mode = "depth16" /\ sample16 = NoneNumber
    /\ sample16' = Sample16(sample8, noise16)
    /\ UNCHANGED <<mode, callsVars, animVars, toleranceVars, imageVars, gifVars, iccVars, avifVars, otherVars,
                   runnerVars, genVars, valVars, sample8, noise16>>

-----------------------------------------------------------------------------
(* AvifGenerator._generate_animation_avif and its fallback                 *)
(* _generate_animation_avif_imagemagick (generators/avif.py), tool by tool. *)
(* A tool run ends with exit code 0 ("0"), with another exit code           *)
(* ("nonzero"), or subprocess.run raises ("notfound": FileNotFoundError or  *)
(* a SubprocessError, "raised": another exception).                        *)

\* One subprocess.run of the routine: the tool, how it ended, and whether
\* output_path exists afterwards.
ToolRun(tool, out, exists) == [tool |-> tool, out |-> out, exists |-> exists]

\* A variant of FfmpegConverted that looks at the output file only.
FfmpegConvertedAnyExit(out, exists) == exists

\* result.returncode == 0 and output_path.exists()
FfmpegConverted(out, exists) == out = "0" /\ exists

\* The index entry both routines append.
AnimationEntry == AvifEntry("avif/animation")

\* The routine's state when another entry point is exercised.
AnimIdle ==
    /\ animPc = "start" /\ animLog = <<>> /\ animIndex = <<>> /\ animExists = FALSE

\* Before _generate_animation_avif(source_file, output_dir, variations_index):
\* the index holds what the lossy and lossless conversions appended, and
\* output_path may be there from an earlier run.
AnimStart ==
    /\ animPc = "start" /\ animLog = <<>>
    /\ animIndex \in { <<>>, <<AvifEntry("avif/lossy")>>,
                       <<AvifEntry("avif/lossy"), AvifEntry("avif/lossless")>> }
    /\ animExists \in BOOLEAN

\* ffmpeg_check = subprocess.run(['ffmpeg', '-version'], ...)
AnimFfmpegCheck ==
    /\ mode = "anim" /\ animPc = "start"
    /\ \E out \in {"0", "nonzero", "notfound", "raised"} :
         /\ animLog' = Append(animLog, ToolRun("ffmpeg -version", out, animExists))
         /\ animPc' = IF out = "0" THEN "ffmpeg" ELSE "magick"
    /\ UNCHANGED <<mode, callsVars, depth16Vars, toleranceVars, imageVars, gifVars, iccVars, avifVars,
                   otherVars, runnerVars, genVars, valVars, animIndex, animExists>>

\* result = subprocess.run(cmd): the FFmpeg conversion. A run that started
\* may leave output_path there or not, whatever its exit code.
AnimFfmpegConvert ==
    /\ mode = "anim" /\ animPc = "ffmpeg"
    /\ \E out \in {"0", "nonzero", "raised"}, written \in BOOLEAN :
         LET exists == IF out = "raised" THEN animExists ELSE written
         IN  /\ animLog' = Append(animLog, ToolRun("ffmpeg", out, exists))
             /\ animExists' = exists
             /\ animPc' = IF out # "raised" /\ FfmpegConverted(out, exists)
                          THEN "ffprobe" ELSE "magick"
    /\ UNCHANGED <<mode, callsVars, depth16Vars, toleranceVars, imageVars, gifVars, iccVars, avifVars,
                   otherVars, runnerVars, genVars, valVars, animIndex>>

\* The frame count by ffprobe: whatever it answers (several frames, one
\* frame, nothing, text int() rejects), exits with or raises, the entry is
\* appended.
AnimFfprobe ==
    /\ mode = "anim" /\ animPc = "ffprobe"
    /\ \E out \in {"0", "nonzero", "notfound", "raised"} :
         animLog' = Append(animLog, ToolRun("ffprobe", out, animExists))
    /\ animIndex' = Append(animIndex, AnimationEntry)
    /\ animPc' = "done"
    /\ UNCHANGED <<mode, callsVars, depth16Vars, toleranceVars, imageVars, gifVars, iccVars, avifVars,
                   otherVars, runnerVars, genVars, valVars, animExists>>

\* _generate_animation_avif_imagemagick: result = subprocess.run(cmd)
AnimMagickConvert ==
    /\ mode = "anim" /\ animPc = "magick"
    /\ \E out \in {"0", "nonzero", "raised"}, written \in BOOLEAN :
         LET exists == IF out = "raised" THEN animExists ELSE written
         IN  /\ animLog' = Append(animLog, ToolRun("magick", out, exists))
             /\ animExists' = exists
             /\ animPc' = IF out = "0" /\ exists THEN "identify" ELSE "done"
    /\ UNCHANGED <<mode, callsVars, depth16Vars, toleranceVars, imageVars, gifVars, iccVars, avifVars,
                   otherVars, runnerVars, genVars, valVars, animIndex>>

\* The frame count by magick identify: whatever it answers or raises, the
\* entry is appended.
AnimIdentify ==
    /\ mode = "anim" /\ animPc = "identify"
    /\ \E out \in {"0", "nonzero", "notfound", "raised"} :
         animLog' = Append(animLog, ToolRun("magick identify", out, animExists))
    /\ animIndex' = Append(animIndex, AnimationEntry)
    /\ animPc' = "done"
    /\ UNCHANGED <<mode, callsVars, depth16Vars, toleranceVars, imageVars, gifVars, iccVars, avifVars,
                   otherVars, runnerVars, genVars, valVars, animExists>>

-----------------------------------------------------------------------------
(* A fresh ValidationResult and the add_test calls made on it, each kept   *)
(* with its test name and its passed argument.                             *)

\* The state of the calls when another entry point is exercised.
CallsIdle == freshResult = NewResult("", "jpeg", "variation") /\ addCalls = <<>>

\* After ValidationResult(filename, 'jpeg', 'variation', specs).
CallsStart ==
    /\ freshResult = NewResult("quality_20.jpg", "jpeg", "variation")
    /\ addCalls = <<>>

\* result.add_test(test_name, passed, ...)
AddTestCall ==
    /\ mode = "calls" /\ Len(addCalls) < MaxAdds
    /\ \E n \in TestNames, ok \in BOOLEAN :
         /\ freshResult' = add_test(freshResult, n, ok)
         /\ addCalls' = Append(addCalls, [test_name |-> n, passed |-> ok])
    /\ UNCHANGED <<mode, animVars, depth16Vars, toleranceVars, imageVars, gifVars, iccVars,
                   avifVars, otherVars, runnerVars, genVars, valVars>>

-----------------------------------------------------------------------------
(* The specifications: one per entry point of the program.                 *)

RunnerIdle ==
    /\ imagemagick_cmd = None
    /\ binState = [b \in Binaries |-> "ok"]
    /\ lastCall = NoCall
    /\ nCalls = 0

InitRunner ==
    /\ mode = "runner" /\ RunnerStart /\ GenIdle /\ ValIdle /\ CmpIdle
    /\ ReportIdle /\ MainIdle
    /\ AvifGenIdle /\ IccIdle /\ GifIdle
    /\ ImageIdle
    /\ ToleranceIdle
    /\ Depth16Idle
    /\ AnimIdle
    /\ CallsIdle

NextRunner == RunCommandCall \/ HostChange

SpecRunner == InitRunner /\ [][NextRunner]_vars

InitGen ==
    /\ mode = "generate" /\ GenStart /\ ValIdle /\ CmpIdle /\ ReportIdle
    /\ MainIdle
    /\ AvifGenIdle /\ IccIdle /\ GifIdle
    /\ ImageIdle
    /\ ToleranceIdle
    /\ Depth16Idle
    /\ AnimIdle
    /\ CallsIdle

NextGen ==
    \/ GenerateVariationsStart
    \/ VariationRow
    \/ CriticalCombination
    \/ GifLoadSource
    \/ GenerateVariationsFinish

SpecGen == InitGen /\ [][NextGen]_vars

InitVal ==
    /\ mode = "validate" /\ RunnerIdle /\ GenIdle /\ ValidateStart
    /\ CmpIdle /\ ReportIdle /\ MainIdle
    /\ AvifGenIdle /\ IccIdle /\ GifIdle
    /\ ImageIdle
    /\ ToleranceIdle
    /\ Depth16Idle
    /\ AnimIdle
    /\ CallsIdle

NextVal == ValidateExisting \/ ValidateMissing \/ ValidateReturn

SpecVal == InitVal /\ [][NextVal]_vars

InitFile ==
    /\ mode = "file" /\ RunnerIdle /\ GenIdle /\ FileStart /\ CmpIdle
    /\ ReportIdle /\ MainIdle
    /\ AvifGenIdle /\ IccIdle /\ GifIdle
    /\ ImageIdle
    /\ ToleranceIdle
    /\ Depth16Idle
    /\ AnimIdle
    /\ CallsIdle

NextFile == ValidateFile

SpecFile == InitFile /\ [][NextFile]_vars

InitResult ==
    /\ mode = "result" /\ RunnerIdle /\ GenIdle /\ ResultStart /\ CmpIdle
    /\ ReportIdle /\ MainIdle
    /\ AvifGenIdle /\ IccIdle /\ GifIdle
    /\ ImageIdle
    /\ ToleranceIdle
    /\ Depth16Idle
    /\ AnimIdle
    /\ CallsIdle

NextResult == AddTest

SpecResult == InitResult /\ [][NextResult]_vars

InitAvifFile ==
    /\ mode = "avif" /\ RunnerIdle /\ GenIdle /\ AvifFileStart /\ CmpIdle
    /\ ReportIdle /\ MainIdle
    /\ AvifGenIdle /\ IccIdle /\ GifIdle
    /\ ImageIdle
    /\ ToleranceIdle
    /\ Depth16Idle
    /\ AnimIdle
    /\ CallsIdle

NextAvifFile == ValidateAvifFile

SpecAvifFile == InitAvifFile /\ [][NextAvifFile]_vars

InitCompare ==
    /\ mode = "compare" /\ RunnerIdle /\ GenIdle /\ ValIdle
    /\ CompareStart /\ ReportIdle /\ MainIdle
    /\ AvifGenIdle /\ IccIdle /\ GifIdle
    /\ ImageIdle
    /\ ToleranceIdle
    /\ Depth16Idle
    /\ AnimIdle
    /\ CallsIdle

NextCompare == CompareDirectoriesStart \/ ComparePair \/ CompareOutput

SpecCompare == InitCompare /\ [][NextCompare]_vars

InitPair ==
    /\ mode = "pair" /\ RunnerIdle /\ GenIdle /\ ValIdle /\ PairStart
    /\ ReportIdle /\ MainIdle
    /\ AvifGenIdle /\ IccIdle /\ GifIdle
    /\ ImageIdle
    /\ ToleranceIdle
    /\ Depth16Idle
    /\ AnimIdle
    /\ CallsIdle

NextPair == CompareImagesCall

SpecPair == InitPair /\ [][NextPair]_vars

InitReport ==
    /\ mode = "report" /\ RunnerIdle /\ GenIdle /\ ValIdle /\ CmpIdle
    /\ ReportStart /\ MainIdle
    /\ AvifGenIdle /\ IccIdle /\ GifIdle
    /\ ImageIdle
    /\ ToleranceIdle
    /\ Depth16Idle
    /\ AnimIdle
    /\ CallsIdle

NextReport == ValidateAllVariations \/ SaveValidationReport

SpecReport == InitReport /\ [][NextReport]_vars

InitMain ==
    /\ mode = "main" /\ RunnerIdle /\ GenIdle /\ ValIdle /\ CmpIdle
    /\ ReportIdle /\ MainStart
    /\ AvifGenIdle /\ IccIdle /\ GifIdle
    /\ ImageIdle
    /\ ToleranceIdle
    /\ Depth16Idle
    /\ AnimIdle
    /\ CallsIdle

NextMain == MainNoCommand \/ MainOperation \/ MainSecondOperation

SpecMain == InitMain /\ [][NextMain]_vars

InitAvifGen ==
    /\ mode = "avifgen" /\ RunnerIdle /\ GenIdle /\ ValIdle /\ CmpIdle
    /\ ReportIdle /\ MainIdle /\ AvifGenStart /\ IccIdle /\ GifIdle
    /\ ImageIdle
    /\ ToleranceIdle
    /\ Depth16Idle
    /\ AnimIdle
    /\ CallsIdle

NextAvifGen == AvifGenerateStart \/ AvifPlaceholders \/ AvifConvert \/ AvifReturn

SpecAvifGen == InitAvifGen /\ [][NextAvifGen]_vars

InitIcc ==
    /\ mode = "icc" /\ RunnerIdle /\ GenIdle /\ ValIdle /\ CmpIdle
    /\ ReportIdle /\ MainIdle /\ AvifGenIdle /\ IccStart /\ GifIdle
    /\ ImageIdle
    /\ ToleranceIdle
    /\ Depth16Idle
    /\ AnimIdle
    /\ CallsIdle

NextIcc == IccSingle \/ IccEnterLoop \/ IccCandidate \/ IccBuiltin \/ IccPlain

SpecIcc == InitIcc /\ [][NextIcc]_vars

InitGif ==
    /\ mode = "gif" /\ RunnerIdle /\ GenIdle /\ ValIdle /\ CmpIdle
    /\ ReportIdle /\ MainIdle /\ AvifGenIdle /\ IccIdle /\ GifStart
    /\ ImageIdle
    /\ ToleranceIdle
    /\ Depth16Idle
    /\ AnimIdle
    /\ CallsIdle

NextGif == CreateGifTestAnimation \/ SaveGifWithOptions

SpecGif == InitGif /\ [][NextGif]_vars

InitImage ==
    /\ mode = "image" /\ RunnerIdle
    /\ GenIdle /\ ValIdle /\ CmpIdle /\ ReportIdle /\ MainIdle
    /\ AvifGenIdle /\ IccIdle /\ GifIdle
    /\ ImageStart
    /\ ToleranceIdle
    /\ Depth16Idle
    /\ AnimIdle
    /\ CallsIdle

NextImage == ImageFlowers \/ ImageClouds

SpecImage == InitImage /\ [][NextImage]_vars

InitTolerance ==
    /\ mode = "tolerance" /\ RunnerIdle
    /\ GenIdle /\ ValIdle /\ CmpIdle /\ ReportIdle /\ MainIdle
    /\ AvifGenIdle /\ IccIdle /\ GifIdle /\ ImageIdle
    /\ ToleranceStart
    /\ Depth16Idle
    /\ AnimIdle
    /\ CallsIdle

NextTolerance == GifDurationStep \/ DpiStep

SpecTolerance == InitTolerance /\ [][NextTolerance]_vars

InitDepth16 ==
    /\ mode = "depth16" /\ RunnerIdle
    /\ GenIdle /\ ValIdle /\ CmpIdle /\ ReportIdle /\ MainIdle
    /\ AvifGenIdle /\ IccIdle /\ GifIdle /\ ImageIdle /\ ToleranceIdle
    /\ Depth16Start
    /\ AnimIdle
    /\ CallsIdle

NextDepth16 == Create16BitSample

SpecDepth16 == InitDepth16 /\ [][NextDepth16]_vars

InitAnim ==
    /\ mode = "anim" /\ RunnerIdle
    /\ GenIdle /\ ValIdle /\ CmpIdle /\ ReportIdle /\ MainIdle
    /\ AvifGenIdle /\ IccIdle /\ GifIdle /\ ImageIdle /\ ToleranceIdle
    /\ Depth16Idle
    /\ AnimStart
    /\ CallsIdle

NextAnim == AnimFfmpegCheck \/ AnimFfmpegConvert \/ AnimFfprobe \/ AnimMagickConvert \/ AnimIdentify

SpecAnim == InitAnim /\ [][NextAnim]_vars

InitCalls ==
    /\ mode = "calls" /\ RunnerIdle
    /\ GenIdle /\ ValIdle /\ CmpIdle /\ ReportIdle /\ MainIdle
    /\ AvifGenIdle /\ IccIdle /\ GifIdle /\ ImageIdle /\ ToleranceIdle
    /\ Depth16Idle /\ AnimIdle
    /\ CallsStart

NextCalls == AddTestCall

SpecCalls == InitCalls /\ [][NextCalls]_vars

Init ==
    \/ InitRunner \/ InitGen \/ InitVal \/ InitFile \/ InitResult
    \/ InitAvifFile \/ InitCompare \/ InitPair \/ InitReport \/ InitMain
    \/ InitAvifGen \/ InitIcc \/ InitGif \/ InitImage \/ InitTolerance
    \/ InitDepth16 \/ InitAnim \/ InitCalls

Next ==
    \/ NextRunner \/ NextGen \/ NextVal \/ NextFile \/ NextResult
    \/ NextAvifFile \/ NextCompare \/ NextPair \/ NextReport \/ NextMain
    \/ NextAvifGen \/ NextIcc \/ NextGif \/ NextImage \/ NextTolerance
    \/ NextDepth16 \/ NextAnim \/ NextCalls

Spec == Init /\ [][Next]_vars

-----------------------------------------------------------------------------
(* C1: run_command returns a boolean for every outcome of the underlying   *)
(* subprocess calls (binary missing, non-zero exit, any other OS-level     *)
(* error raised while probing or launching) and never raises.              *)
C1_RunCommandNeverRaises == lastCall.ret # "raised"

\* A call whose probe of `magick` was refused by the host has been made.
C1_Witness ==
    /\ lastCall.fresh
    /\ lastCall.probed = <<"magick">>
    /\ binState["magick"] = "denied"
    /\ lastCall.ret # "none"

(* C2: detection probes `magick` before `convert`; `magick` is chosen       *)
(* whenever its probe succeeds, `convert` only when the `magick` probe     *)
(* fails and the `convert` probe succeeds; a cached name replaces cmd[0]   *)
(* in every later call and is never detected again or changed, even if     *)
(* that command later fails or disappears.                                 *)
C2_Step ==
    /\ imagemagick_cmd # None =>
          /\ imagemagick_cmd' = imagemagick_cmd
          /\ nCalls' # nCalls =>
                /\ lastCall'.probed = <<>>
                /\ lastCall'.argv0 = imagemagick_cmd
    /\ (imagemagick_cmd = None /\ nCalls' # nCalls) =>
          /\ lastCall'.probed # <<>> /\ lastCall'.probed[1] = "magick"
          /\ ProbeOutcome(binState, "magick") = "ok" => imagemagick_cmd' = "magick"
          /\ imagemagick_cmd' = "magick" => ProbeOutcome(binState, "magick") = "ok"
          /\ imagemagick_cmd' = "convert" =>
                /\ ProbeOutcome(binState, "magick") # "ok"
                /\ ProbeOutcome(binState, "convert") = "ok"
                /\ lastCall'.probed = <<"magick", "convert">>
          /\ imagemagick_cmd' # None => lastCall'.argv0 = imagemagick_cmd'

C2_DetectOnceMagickFirst == [][C2_Step]_vars

\* `convert` was cached, has since disappeared, and a later call still ran it.
C2_Witness ==
    /\ imagemagick_cmd = "convert"
    /\ binState["convert"] = "missing"
    /\ binState["magick"] = "ok"
    /\ ~lastCall.fresh
    /\ lastCall.argv0 = "convert"
    /\ lastCall.ret = "False"

(* C3: in the JPEG and PNG generators, whatever ImageMagick invocations    *)
(* fail (the runner returns False), every remaining table row and the      *)
(* critical combinations are still attempted in table order, and the       *)
(* generator returns a list, not None.                                     *)
IsPrefix(s, t) == Len(s) <= Len(t) /\ \A k \in 1..Len(s) : s[k] = t[k]

C3_GeneratorsSurviveRunnerFailure ==
    \A g \in {"jpeg", "png"} :
        /\ IsPrefix(attempted[g], AllFilenames(impl, g))
        /\ (result[g] # Pending /\ ~excIn[g]) =>
              /\ result[g].st = "list"
              /\ attempted[g] = AllFilenames(impl, g)

\* The JPEG generator returned its list although the conversion of
\* quality_20.jpg failed, and the rows after it were converted.
C3_Witness ==
    /\ result["jpeg"].st = "list"
    /\ ~excIn["jpeg"]
    /\ "jpeg/quality_20.jpg" \notin files
    /\ "jpeg/quality_50.jpg" \in files
    /\ "jpeg/critical_jfif_exif_dpi.jpg" \in files

(* C4: after generate_variations returned True, every entry of index.json  *)
(* has a path that is an existing file under output_dir, whatever the      *)
(* individual conversions did and also when source_dir is not output_dir.  *)
C4_IndexedPathsExist ==
    ret = "True" =>
        \A k \in 1..Len(indexJson.entries) : PathExists(indexJson.entries[k].path)

(* C5: generate_variations returns True and writes index.json if and only  *)
(* if the three generators all returned a list; if one returned None it    *)
(* returns False and leaves index.json as it was.                          *)
AllLists(res) == \A f \in Formats : res[f].st = "list"

C5_Step ==
    /\ indexJson' # indexJson =>
          /\ AllLists(result)
          /\ ret' = "True"
          /\ indexJson' = JsonFile(AllVariations(result))
    /\ (ret' = "True" /\ ret # "True") =>
          /\ AllLists(result)
          /\ indexJson' = JsonFile(AllVariations(result))
    /\ (ret' = "False" /\ ret # "False") =>
          /\ ~AllLists(result)
          /\ indexJson' = indexJson
    /\ (pc = "finish" /\ pc' = "done" /\ impl = "functions") =>
          /\ AllLists(result) => ret' = "True"
          /\ ret' \in {"True", "False"}

C6_SingleFailureDegradesOnly ==
    ( /\ pc = "done" /\ impl = "functions" /\ srcFiles = Originals
      /\ result["jpeg"].st = "list" /\ result["png"].st = "list"
      /\ faults <= 1 ) =>
        /\ ret = "True"
        /\ attempted["gif"] = AllFilenames(impl, "gif")
        /\ indexJson \notin {NoFile, OldIndex}

(* C7: for every filename of the validator's table whose file is absent,  *)
(* the run yields a result with passed = False whose only recorded test is *)
(* file_exists, failed; every other filename of the table is still         *)
(* validated, in table order, and the run returns its list.                *)
C7_MissingFileShortCircuits ==
    /\ Len(results) = vpos - 1
    /\ vdone => Len(results) = Len(JpegExpectations)
    /\ \A k \in 1..Len(results) :
          LET name == JpegExpectations[k].filename
              r == results[k]
          IN  /\ r.filename = name
              /\ jpegDir[name] = "absent" =>
                    /\ ~r.passed
                    /\ DOMAIN r.tests = {"file_exists"}
                    /\ ~r.tests["file_exists"]
              /\ jpegDir[name] # "absent" =>
                    /\ r.variation_type = "variation"
                    /\ "file_readable" \in DOMAIN r.tests
                    /\ "file_exists" \notin DOMAIN r.tests

\* The run returned with quality_20.jpg absent: its result is the failed
\* file_exists test, and the file after it was opened and validated.
C7_Witness ==
    /\ vdone
    /\ jpegDir["quality_20.jpg"] = "absent"
    /\ results[4] = MissingResult("quality_20.jpg")
    /\ results[5].filename = "quality_50.jpg"
    /\ results[5].tests["file_readable"]
    /\ "quality_file_size" \in DOMAIN results[5].tests

(* C8: after any sequence of add_test calls, passed equals the logical AND *)
(* of the passed flags of the entries currently held in tests, also when a *)
(* test name was recorded more than once.                                  *)
C8_PassedIsAndOfTests ==
    vr.passed = (\A n \in DOMAIN vr.tests : vr.tests[n])

(* C9: when a JPEG file is validated, every property key present in        *)
(* expected_specs has its test recorded, whatever other keys are present.  *)
TestsOfKey(key) ==
    CASE key = "colorspace" -> {"color_mode"}
      [] key = "quality_range" -> {"quality_file_size"}
      [] key = "progressive" -> {"progressive_encoding"}
      [] key = "dpi_type" -> {"dpi_no_exif_resolution", "jfif_dpi", "exif_dpi"}
      [] OTHER -> {key}

C9_Keys ==
    {"colorspace", "quality_range", "progressive", "subsampling",
     "has_icc_profile", "has_exif", "has_gps", "has_thumbnail", "orientation",
     "dpi_type"}

C9_EveryKeyRecordsItsTest ==
    (mode = "file" /\ vdone /\ callFile.readable /\ callFile.exif.load = "ok") =>
        \A key \in C9_Keys \cap DOMAIN callSpecs :
            TestsOfKey(key) \cap DOMAIN vr.tests # {}

(* C10: validating orientation_N.jpg against its table entry                *)
(* {'orientation': N} passes only if the Orientation tag read back from    *)
(* the file equals N; a file whose tag differs or is absent does not pass. *)
C10_OrientationRoundTrip ==
    (mode = "file" /\ vdone /\ DOMAIN callSpecs = {"orientation"} /\ vr.passed) =>
        /\ callFile.exif.load = "ok"
        /\ callFile.exif.orientation = callSpecs.orientation

-----------------------------------------------------------------------------
\* C11: AvifValidator._validate_file: when PIL cannot open the file but
\* `magick identify` exits 0 and reports AVIF, the result has passed = True,
\* tests['pil_readable'] recorded as passed and no pil_readable entry in
\* errors; when neither PIL nor ImageMagick can read the file, the result has
\* passed = False.
C11_AvifFallbackOverride ==
    (mode = "avif" /\ vdone /\ callFile.exists /\ callFile.pil = "raises") =>
        IF callFile.identify \in {"avif", "avif_short"}
        THEN /\ vr.passed
             /\ "pil_readable" \in DOMAIN vr.tests /\ vr.tests["pil_readable"]
             /\ \A k \in 1..Len(vr.errors) : vr.errors[k] # "pil_readable"
        ELSE ~vr.passed

\* A file only ImageMagick could read has been validated.
C11_Witness ==
    /\ mode = "avif" /\ vdone
    /\ callFile.exists /\ callFile.pil = "raises" /\ callFile.identify = "avif"
    /\ vr.passed /\ vr.tests["imagemagick_valid"] /\ "subtype" \in DOMAIN vr.tests

-----------------------------------------------------------------------------
\* The image paths a directory holds, and the filenames of a list of results.
Held(directory) == { p \in ImagePaths : directory.files[p] # 0 }

FilenamesOf(comparisons) == { comparisons[k].filename : k \in 1..Len(comparisons) }

BothRead(kind) ==
    /\ Suffix(cmpFilename) = ".avif" <=> kind = "avif"
    /\ Suffix(cmpFilename) = ".gif" <=> kind = "gif"
    /\ IF kind = "avif"
       THEN fileA.identify = "ok" /\ fileB.identify = "ok"
       ELSE /\ fileA.open = "ok" /\ fileB.open = "ok"
            /\ fileA.frames # <<>> /\ fileB.frames # <<>>

SizesDiffer == Resolution(fileA.frames[1]) # Resolution(fileB.frames[1])

MismatchReported ==
    /\ cmpResult.psnr = NoneNumber /\ cmpResult.ssim = NoneNumber
    /\ "metrics_error" \in DOMAIN cmpResult
    /\ cmpResult.metrics_error = "Resolution mismatch"

\* C13: when the two images of a compared pair differ in width or height,
\* the result has psnr = None, ssim = None and metrics_error = 'Resolution
\* mismatch'; for GIF pairs too, resolution mismatch taking precedence over
\* a frame-count mismatch. As stated, for every compared pair.
C13_ResolutionMismatchEveryPair ==
    (mode = "pair" /\ cmpPc = "done") =>
        \A kind \in {"static", "gif", "avif"} :
            (BothRead(kind) /\ SizesDiffer) => MismatchReported

\* C13, amended: the statement holds for static and GIF pairs; for an AVIF
\* pair of different resolutions the result has psnr = None, ssim = None and
\* resolution_match = False, and no metrics_error key.
C13_ResolutionMismatchByKind ==
    (mode = "pair" /\ cmpPc = "done") =>
        /\ \A kind \in {"static", "gif"} :
               (BothRead(kind) /\ SizesDiffer) => MismatchReported
        /\ (BothRead("avif") /\ SizesDiffer) =>
               /\ cmpResult.psnr = NoneNumber /\ cmpResult.ssim = NoneNumber
               /\ ~cmpResult.resolution_match
               /\ "metrics_error" \notin DOMAIN cmpResult

\* A GIF pair differing in resolution and in frame count has been compared.
C13_Witness ==
    /\ mode = "pair" /\ cmpPc = "done"
    /\ BothRead("gif") /\ SizesDiffer
    /\ Len(fileA.frames) # Len(fileB.frames)
    /\ cmpResult.metrics_error = "Resolution mismatch"

\* C14: comparing a directory with itself yields, for every common file
\* (static image, GIF and AVIF alike), psnr equal to infinity or the
\* saturating sentinel and ssim = 1.0.
C14_SelfComparisonIsPerfect ==
    (mode = "compare" /\ cmpPc = "done" /\ dirA.exists /\ dirA = dirB) =>
        \A k \in 1..Len(report_data.comparisons) :
            LET c == report_data.comparisons[k]
            IN  /\ "psnr" \in DOMAIN c /\ c.psnr \in {Infinity, SaturatedPsnr}
                /\ "ssim" \in DOMAIN c /\ c.ssim = SsimOne

\* The frames of the pair whose metrics could be computed, and the value
\* frame k contributes under which = 1 (PSNR) or 2 (SSIM).
Contributing ==
    { k \in 1..Len(fileA.frames) :
        CalculateImageMetrics(fileA.frames[k], fileB.frames[k]) # <<>> }

FrameValue(k, which) ==
    LET m == CalculateImageMetrics(fileA.frames[k], fileB.frames[k])
    IN  IF which = 1 /\ m[1] = Infinity THEN SaturatedPsnr ELSE m[which]

MainRaised ==
    \/ Len(mainCalls) >= 1 /\ opOutcome = "raised"
    \/ Len(mainCalls) = 2 /\ op2Outcome = "raised"

\* C16: toolkit.main returns 0 on success of the selected subcommand's
\* operation, and returns 1 when no subcommand was given or when an
\* exception escapes the operation.
C16_ExitCode ==
    (mode = "main" /\ mainPc = "done") =>
        /\ args.command = None => exitCode = 1 /\ mainCalls = <<>>
        /\ MainRaised => exitCode = 1
        /\ (args.command # None /\ ~MainRaised) => exitCode = 0

\* generate-variations --test-compliance whose compliance test raised.
C16_Witness ==
    /\ mode = "main" /\ mainPc = "done"
    /\ args.command = "generate-variations"
    /\ Len(mainCalls) = 2 /\ mainCalls[2][1] = "test_variation_compliance"
    /\ op2Outcome = "raised" /\ exitCode = 1

\* C17: no public entry point (generate_variations, validate_all_variations,
\* save_validation_report, compare_directories) propagates an exception to
\* its caller, whatever the filesystem or library failure and for empty
\* inputs such as an output directory with nothing to validate
\* (total_tested = 0).
C17_NoEntryPointRaises ==
    /\ ret # "raised"
    /\ reportRet # "raised"
    /\ cmpRet # "raised"

ExistingCandidates == SelectSeq(IccPaths(iccParam), LAMBDA p : p \in iccExists)

\* The commands of the call run with a candidate profile, in the order run.
CandidatesRun ==
    LET c == SelectSeq(iccLog, LAMBDA e : e.cmd.kind = "candidate")
    IN  [k \in 1..Len(c) |-> c[k].cmd.arg]

\* C19: for 'srgb' and 'adobergb', JpegGenerator._convert_icc tries the
\* candidate profile paths that exist in their listed order, stops at the
\* first command that succeeds, tries the built-in profile name only if no
\* candidate succeeded, runs the plain colorspace conversion only if the
\* built-in attempt also failed, and executes no command after one has
\* succeeded.
C19_IccFallbackOrder ==
    (mode = "icc" /\ iccParam \in {"srgb", "adobergb"}) =>
        /\ IsPrefix(CandidatesRun, ExistingCandidates)
        /\ \A i \in 1..Len(iccLog) :
             /\ i < Len(iccLog) => iccLog[i].ret = "False"
             /\ iccLog[i].cmd.kind = "builtin" =>
                  /\ i = Len(ExistingCandidates) + 1
                  /\ \A j \in 1..(i - 1) : /\ iccLog[j].cmd.kind = "candidate"
                                           /\ iccLog[j].ret = "False"
             /\ iccLog[i].cmd.kind = "plain" =>
                  /\ i > 1 /\ iccLog[i - 1].cmd.kind = "builtin"
                  /\ iccLog[i - 1].ret = "False"
             /\ iccLog[i].cmd.kind \in {"candidate", "builtin", "plain"}
        /\ iccPc = "done" =>
             /\ iccLog # <<>>
             /\ \/ iccLog[Len(iccLog)].ret = "True"
                \/ iccLog[Len(iccLog)].cmd.kind = "plain"

\* Two candidate files exist; the command with the first failed, the one
\* with the second succeeded, and the conversion ended there.
C19_Witness ==
    /\ mode = "icc" /\ iccPc = "done" /\ iccParam = "srgb"
    /\ Cardinality(iccExists) >= 3
    /\ Len(iccLog) = 2
    /\ iccLog[1].cmd.kind = "candidate" /\ iccLog[1].ret = "False"
    /\ iccLog[2].cmd.kind = "candidate" /\ iccLog[2].ret = "True"

\* The frame_count GifValidator expects for a filename (NoneNumber: none).
ExpectedFrameCount(filename) ==
    LET rows == { k \in 1..Len(GifExpectations) :
                    GifExpectations[k].filename = filename }
    IN  IF rows = {} THEN NoneNumber
        ELSE LET specs == GifExpectations[CHOOSE k \in rows : TRUE].specs
             IN  IF "frame_count" \in DOMAIN specs THEN specs.frame_count ELSE NoneNumber

\* The count requested for a frame-count variation.
RequestedFrames(param) ==
    CASE param = "single" -> 1
      [] param = "short"  -> 5
      [] param = "medium" -> 10
      [] param = "long"   -> 20
      [] OTHER            -> NoneNumber

\* C20: for each GIF frame-count variation (single, short, medium, long) the
\* number of frames built by create_gif_test_animation and handed to the GIF
\* writer by save_gif_with_options equals the requested count (1, 5, 10, 20),
\* and that count is the frame_count GifValidator expects for the
\* corresponding filename.
C20_FrameCountsAgree ==
    /\ { GifSpecs[k].param : k \in { j \in 1..Len(GifSpecs) : GifSpecs[j].category = "frames" } }
           = {"single", "short", "medium", "long"}
    /\ (mode = "gif" /\ gifRow > 0 /\ GifSpecs[IF gifRow > 0 THEN gifRow ELSE 1].category = "frames") =>
         LET r == GifSpecs[gifRow]
             n == RequestedFrames(r.param)
         IN  /\ n \in {1, 5, 10, 20}
             /\ gifArgs.frame_count = n
             /\ gifPc # "start" => Len(gifFrames) = n
             /\ gifPc = "built" => gifSaved = NotSaved
             /\ gifPc \in {"saved", "raised"} => Len(gifSaved.frames) = n
             /\ ExpectedFrameCount(Filename("gif", r)) = n

\* frames_long.gif: twenty frames were built and handed to the writer.
C20_Witness ==
    /\ mode = "gif" /\ gifRow > 0 /\ gifPc = "saved"
    /\ Filename("gif", GifSpecs[IF gifRow > 0 THEN gifRow ELSE 1]) = "frames_long.gif"
    /\ Len(gifFrames) = 20 /\ Len(gifSaved.frames) = 20

\* The file names, relative to a format's directory, that index paths are
\* built from.
Basenames ==
    UNION { { AllFilenames(im, f)[k] : k \in 1..Len(AllFilenames(im, f)) } :
            im \in {"functions", "classes"}, f \in Formats }
        \cup {"lossy/original.avif", "lossless/original.avif", "animation/original.avif",
              "lossy/original.webp", "lossless/original.webp", "animation/original.webp"}

\* The entries of index.json with a format whose path starts with "<format>/".
IndexedUnder(fmt) ==
    { k \in 1..Len(indexJson.entries) :
        /\ indexJson.entries[k].format = fmt
        /\ \E n \in Basenames : indexJson.entries[k].path = fmt \o "/" \o n }

\* C21: after generate_variations returns True, index.json contains at least
\* 3 entries with format 'webp' whose paths start with 'webp/' and at least 3
\* entries with format 'avif' whose paths start with 'avif/'.
C21_IndexHasWebpAvif ==
    (mode = "generate" /\ ret = "True") =>
        /\ indexJson.exists
        /\ Cardinality(IndexedUnder("webp")) >= 3
        /\ Cardinality(IndexedUnder("avif")) >= 3

\* The paths, under output_dir, of the files validate_all_variations looks for.
ExpectedPaths ==
    { "jpeg/" \o JpegExpectations[k].filename : k \in 1..Len(JpegExpectations) }
        \cup { "png/" \o PngExpectations[k].filename : k \in 1..Len(PngExpectations) }

\* C22: after a successful generate_variations in which every tool
\* invocation succeeded, every filename of the JPEG and PNG expectation
\* tables used by validate_all_variations exists on disk, so that no JPEG or
\* PNG result has a failing file_exists test. "Every tool invocation
\* succeeded": ImageMagick is installed and no call went wrong.
C22_ExpectedFilesGenerated ==
    (/\ mode = "generate" /\ impl = "functions" /\ pc = "done" /\ ret = "True"
     /\ faults = 0 /\ binState["magick"] = "ok") =>
        \A p \in ExpectedPaths : p \in files

\* C23: the dictionary returned by validate_all_variations always contains
\* the keys total_tested, total_passed, total_failed, jpeg_results,
\* png_results, webp_results, avif_results and summary, whichever format
\* directories exist.
C23_ResultKeys ==
    (mode = "report" /\ reportPc # "start") =>
        {"total_tested", "total_passed", "total_failed", "jpeg_results",
         "png_results", "webp_results", "avif_results", "summary"}
            \subseteq DOMAIN valResults

\* C24: create_jpeg_test_image(width, height) returns an image of exactly
\* width x height for every positive width and height: every random range it
\* requests is non-empty, so it does not raise for small sizes.
C24_AnyPositiveSize ==
    mode = "image" =>
        /\ imgPc # "raised"
        /\ imgPc = "done" => imgSize = <<imgWidth, imgHeight>>

\* The test a row's numeric check is recorded under.
ToleranceTestName ==
    CASE tolRow.kind = "gif"  -> "frame_duration"
      [] tolRow.kind = "jfif" -> "jfif_dpi"
      [] tolRow.kind = "exif" -> "exif_dpi"

\* C25: the numeric validator checks are inclusive tolerance tests: a GIF
\* frame_duration test passes iff |actual - expected| <= 20 ms (and fails
\* when the file carries no duration), and a JFIF or EXIF DPI test passes iff
\* |actual - expected| <= 1, an EXIF resolution with zero denominator being
\* read as 0.
C25_InclusiveTolerances ==
    (mode = "tolerance" /\ tolPc = "done") =>
        LET e == ExpectedValue(tolRow)
            m == tolMeasured
            within ==
                /\ m # <<>>
                /\ CASE tolRow.kind = "gif"  -> m[1] - e \in -20..20
                     [] tolRow.kind = "jfif" -> m[1] - e \in -1..1
                     [] tolRow.kind = "exif" ->
                            IF m[2] = 0 THEN 0 - e \in -1..1
                            ELSE m[1] - e * m[2] \in (-m[2])..m[2]
        IN  /\ ToleranceTestName \in DOMAIN tolResult.tests
            /\ tolResult.tests[ToleranceTestName] = within
            /\ tolResult.passed = within

\* An EXIF XResolution of 146/2 against an expected 72: exactly one more,
\* and the test passed.
C25_Witness ==
    /\ mode = "tolerance" /\ tolPc = "done" /\ tolRow.kind = "exif"
    /\ ExpectedValue(tolRow) = 72 /\ tolMeasured = <<146, 2>>
    /\ tolResult.tests["exif_dpi"] /\ tolResult.passed

\* C26: for every 8-bit sample v in 0..255 and every noise value n in
\* -128..128, the 16-bit output clip(257*v + n, 0, 65535) of
\* _create_16bit_png_opencv differs from 257*v only in its lower bits: the
\* upper 8 bits of the output equal v.
C26_NoiseInLowerBits ==
    (mode = "depth16" /\ sample16 # NoneNumber) => sample16 \div 256 = sample8

\* C27: in toolkit.main, when generate_original_images or
\* generate_variations reports failure by returning False without raising,
\* the compliance step is skipped even if --test-compliance was given, and
\* main still ends through its success path and returns 0.
C27_FalseIsNotAnError ==
    (/\ mode = "main" /\ mainCalls # <<>>
     /\ args.command \in {"generate-original", "generate-variations"}
     /\ opOutcome = "False") =>
        /\ mainPc = "done"
        /\ mainCalls = <<FirstOperation(args)>>
        /\ exitCode = 0

\* generate-variations --test-compliance: generate_variations returned
\* False, nothing else was called, and main returned 0.
C27_Witness ==
    /\ mode = "main" /\ mainPc = "done"
    /\ args.command = "generate-variations" /\ args.test_compliance
    /\ opOutcome = "False"
    /\ Len(mainCalls) = 1 /\ mainCalls[1][1] = "generate_variations"
    /\ exitCode = 0

\* The runs of the two converters, in the order made.
ConverterRuns == SelectSeq(animLog, LAMBDA t : t.tool \in {"ffmpeg", "magick"})

\* The runs of a tool.
RunsOf(tool) == SelectSeq(animLog, LAMBDA t : t.tool = tool)

\* The animation entries in the index.
AnimationEntries == SelectSeq(animIndex, LAMBDA e : e = AnimationEntry)

\* C28: AvifGenerator._generate_animation_avif appends at most one index
\* entry (path avif/animation/original.avif) across the FFmpeg attempt and
\* the ImageMagick fallback, appends it only if the converter that ran last
\* exited 0 and the output file exists, and runs the ImageMagick fallback
\* only if FFmpeg is unavailable or its conversion failed.
C28_AnimationEntry ==
    mode = "anim" =>
        /\ Len(AnimationEntries) <= 1
        /\ Len(AnimationEntries) = 1 =>
             /\ ConverterRuns # <<>>
             /\ ConverterRuns[Len(ConverterRuns)].out = "0"
             /\ ConverterRuns[Len(ConverterRuns)].exists
             /\ animExists
             /\ animIndex[Len(animIndex)].path = "avif/animation/original.avif"
        /\ RunsOf("magick") # <<>> =>
             \/ RunsOf("ffmpeg -version")[1].out # "0"
             \/ /\ RunsOf("ffmpeg") # <<>>
                /\ ~(RunsOf("ffmpeg")[1].out = "0" /\ RunsOf("ffmpeg")[1].exists)
        /\ Len(RunsOf("ffmpeg")) <= 1 /\ Len(RunsOf("magick")) <= 1

\* FFmpeg is installed but its conversion failed; the ImageMagick fallback
\* wrote the file and the one entry was appended.
C28_Witness ==
    /\ mode = "anim" /\ animPc = "done"
    /\ Len(RunsOf("ffmpeg")) = 1 /\ RunsOf("ffmpeg")[1].out = "nonzero"
    /\ Len(RunsOf("magick")) = 1 /\ RunsOf("magick")[1].out = "0"
    /\ Len(AnimationEntries) = 1 /\ animExists

\* The results of a list that passed.
PassedIn(rs) == { k \in 1..Len(rs) : rs[k].passed }

\* C29: validate_all_variations keeps its counters consistent:
\* total_tested = len(jpeg_results) + len(png_results)
\* = total_passed + total_failed, and for every format present in summary
\* passed + failed = total; a format whose directory does not exist
\* contributes zero results (not failures) and no summary entry.
C29_CountersConsistent ==
    (mode = "report" /\ reportPc # "start") =>
        LET r == valResults
            lists == [f \in {"jpeg", "png"} |->
                        IF f = "jpeg" THEN r.jpeg_results ELSE r.png_results]
            dirs == [f \in {"jpeg", "png"} |-> IF f = "jpeg" THEN jpegOut ELSE pngOut]
        IN  /\ r.total_tested = Len(r.jpeg_results) + Len(r.png_results)
            /\ r.total_tested = r.total_passed + r.total_failed
            /\ r.total_passed = Cardinality(PassedIn(r.jpeg_results))
                                    + Cardinality(PassedIn(r.png_results))
            /\ r.total_failed >= 0
            /\ DOMAIN r.summary = { f \in {"jpeg", "png"} : dirs[f].exists }
            /\ \A f \in DOMAIN r.summary :
                 /\ r.summary[f].passed + r.summary[f].failed = r.summary[f].total
                 /\ r.summary[f].total = Len(lists[f])
                 /\ r.summary[f].passed = Cardinality(PassedIn(lists[f]))
            /\ \A f \in {"jpeg", "png"} : ~dirs[f].exists => lists[f] = <<>>

\* The jpeg directory exists with files that pass and files that fail, the
\* png directory does not exist.
C29_Witness ==
    /\ mode = "report" /\ reportPc = "validated"
    /\ jpegOut.exists /\ ~pngOut.exists
    /\ valResults.total_passed > 0 /\ valResults.total_failed > 0
    /\ valResults.png_results = <<>>
    /\ DOMAIN valResults.summary = {"jpeg"}

\* The add_test calls made with passed = False, in the order made.
FailingCalls == SelectSeq(addCalls, LAMBDA c : ~c.passed)

\* C30: for any sequence of add_test calls on a fresh ValidationResult,
\* passed is False iff at least one call was made with passed = False, iff
\* errors is non-empty; passed never returns to True through add_test, and
\* errors gains exactly one entry per failing call and none per passing call.
C30_PassedFollowsFailingCalls ==
    /\ [](mode = "calls" =>
            /\ freshResult.passed = (FailingCalls = <<>>)
            /\ (freshResult.errors # <<>>) = (FailingCalls # <<>>)
            /\ Len(freshResult.errors) = Len(FailingCalls)
            /\ \A k \in 1..Len(FailingCalls) :
                 freshResult.errors[k] = FailingCalls[k].test_name)
    /\ [][mode = "calls" =>
            /\ ~freshResult.passed => ~freshResult'.passed
            /\ Len(freshResult'.errors) =
                 Len(freshResult.errors)
                   + (IF addCalls'[Len(addCalls')].passed THEN 0 ELSE 1)]_vars

\* A passing call, a failing call and another passing call of the same test:
\* passed stays False and errors has the one entry.
C30_Witness ==
    /\ mode = "calls" /\ Len(addCalls) = 3
    /\ addCalls[1].passed /\ ~addCalls[2].passed /\ addCalls[3].passed
    /\ addCalls[2].test_name = addCalls[3].test_name
    /\ ~freshResult.passed /\ Len(freshResult.errors) = 1

=============================================================================
